---- MODULE Spec2Model ----
(***************************************************************************)
(* Version/checkpoint orchestration of lasanthawi/ochestra.                *)
(*                                                                         *)
(* The store is the three tables of src/unnamed/part_006 (projects,        *)
(* project_versions, project_secrets) with their foreign keys.  The        *)
(* processes are the workflows of src/unnamed/part_008, the restore        *)
(* handler of versions/route.ts, the agent's commit-and-push tool of       *)
(* mastra/lib/tools.ts and the operation poller of NeonService.            *)
(***************************************************************************)
EXTENDS Integers, Sequences, FiniteSets, TLC

VARIABLES
    projects,        \* projects table: id -> [exists, currentDevVersionId]
    versions,        \* project_versions table: set of rows
    secrets,         \* project_secrets table: set of rows
    gitHead,         \* per project: commit the repository's main branch is at
    appliedSnapshot, \* per project: snapshot last applied to the backend branch
    init,            \* the initalizeFirstProjectVersion run
    ckpt,            \* the createManualCheckpoint runs
    del,             \* the deleteProject run
    restore,         \* the POST restore-version request
    agent,           \* the freestyle-commit-and-push tool call
    poll,            \* one waitForOperationToSettle call and its operation
    many,            \* one waitForOperationsToSettle call, its waits and operations
    branch,          \* the project's branches at Neon and the getProductionBranch calls
    snap,            \* the createSnapshot calls of the checkpoint runs, and Neon's snapshots
    apply,           \* the applySnapshot call of the restore request
    create,          \* one createProject call
    auth,            \* the project's trusted auth domains and the addAuthDomain calls
    cfg,             \* backend_type and backend_project_id of the row of project p1
    warm             \* the dev-server request warmUpDevServer leaves in flight

\* the state of the NeonService calls other than the single poller
moreVars == <<cfg, warm>>
callVars == <<apply, create, auth, moreVars>>
neonVars == <<many, branch, snap, callVars>>

vars == <<projects, versions, secrets, gitHead, appliedSnapshot, init, ckpt, del, restore, agent, poll,
          neonVars>>

storeVars == <<projects, versions, secrets>>
worldVars == <<gitHead, appliedSnapshot>>

----------------------------------------------------------------------------
(* Bounds *)

\* number of operations (checkpoint, delete, agent tool call, restore) that may be
\* started against the store while and after the project is initialised
MaxOperations == 2
\* the clock of the poller saturates here (units of one poll interval step)
MaxTime == 6
\* the most branches a project holds at the control-plane
MaxBranches == 2
\* the most members written in the JSON text of a secrets bundle
MaxMembers == 2

----------------------------------------------------------------------------
(* Schema *)

\* a null uuid column (projects.current_dev_version_id is nullable)
NULL == 0

ProjectIds == {"p1", "p2"}

\* assistant_message_id is a nullable text column
NoMessage == "null"

InitialSummary == "Initial project setup"
CheckpointSummary == "Manual checkpoint"
AgentSummary == "agent commit message"

\* uuids: the two version rows p2 holds from the start, and the uuid the store (and the
\* backend, for its snapshot) draws for each run that inserts a version, named after it
SeedVersionIds == {1, 2}
\* the createManualCheckpoint runs
Checkpoints == {1, 2}
InitRunId == Cardinality(SeedVersionIds) + 1
CkptRunId(i) == InitRunId + i
AgentRunId == InitRunId + Cardinality(Checkpoints) + 1
AllVersionIds == 1..AgentRunId

\* rows of project_versions
VersionRow(id, projectId, gitCommitHash, neonSnapshotId, assistantMessageId, summary) ==
    [id |-> id, projectId |-> projectId, gitCommitHash |-> gitCommitHash,
     neonSnapshotId |-> neonSnapshotId, assistantMessageId |-> assistantMessageId,
     summary |-> summary]

\* rows of project_secrets; n tells apart the rows of one version (the row's own uuid)
SecretRow(projectVersionId, n, ciphertext) ==
    [projectVersionId |-> projectVersionId, n |-> n, secrets |-> ciphertext]

\* @/lib/encryption: a sealed codec; every call of encrypt draws a fresh iv
encrypt(plaintext, iv) == [iv |-> iv, data |-> plaintext]
decrypt(ciphertext) == ciphertext.data

\* A Record<string, string> is the sequence of its <<key, value>> properties in
\* property order: integer-like keys first, then the others as first inserted. A
\* JSON text of such an object is the sequence of its tokens key, value, key, value
\* as written, where a key may be written more than once.
IntegerLikeKeys == {"1"}

\* obj[key] = value
SetProperty(obj, key, value) ==
    IF \E k \in 1..Len(obj) : obj[k][1] = key
    THEN [k \in 1..Len(obj) |-> IF obj[k][1] = key THEN <<key, value>> ELSE obj[k]]
    ELSE IF key \in IntegerLikeKeys
    THEN <<<<key, value>>>> \o obj
    ELSE Append(obj, <<key, value>>)

RECURSIVE JSONParseFrom(_, _)
JSONParseFrom(text, obj) ==
    IF Len(text) < 2 THEN obj
    ELSE JSONParseFrom(SubSeq(text, 3, Len(text)), SetProperty(obj, text[1], text[2]))

\* JSON.parse(text) and JSON.stringify(obj)
JSONParse(text) == JSONParseFrom(text, <<>>)

RECURSIVE JSONStringify(_)
JSONStringify(obj) ==
    IF obj = <<>> THEN <<>>
    ELSE <<Head(obj)[1], Head(obj)[2]>> \o JSONStringify(Tail(obj))

\* the mapping an object holds, whatever the order of its properties
MappingOf(obj) == {obj[k] : k \in 1..Len(obj)}

\* backend_type is a text column and backend_project_id a nullable text column
NoBackendProjectId == "null"
BackendColumns(backendType, backendProjectId) ==
    [backendType |-> backendType, backendProjectId |-> backendProjectId]
BackendConfigs ==
    {BackendColumns("neon", "np1"), BackendColumns("neon", NoBackendProjectId),
     BackendColumns("neon", ""), BackendColumns("firebase", "fb1"),
     BackendColumns("firebase", NoBackendProjectId)}

\* !project.backendProjectId
NoProjectId(project) == project.backendProjectId \in {NoBackendProjectId, ""}

\* getBackendAdapter(project): the adapter, or the error it throws
Adapter(name, backendProjectId, error) ==
    [adapter |-> name, backendProjectId |-> backendProjectId, error |-> error]
getBackendAdapterDefaultNeon(project) ==
    Adapter("NeonBackendAdapter", project.backendProjectId, "none")
getBackendAdapter(project) ==
    IF project.backendType = "neon"
    THEN IF NoProjectId(project)
         THEN Adapter("none", NoBackendProjectId, "Missing Neon project ID")
         ELSE Adapter("NeonBackendAdapter", project.backendProjectId, "none")
    ELSE Adapter("none", NoBackendProjectId, "Unsupported backend")

\* if (project.backendType !== "neon" || !project.backendProjectId) throw
SupportsInitialVersionAlways(project) == TRUE
SupportsInitialVersion(project) == project.backendType = "neon" /\ ~NoProjectId(project)

----------------------------------------------------------------------------
(* Queries and statements on the store *)

VersionsOfProject(vs, projectId) == {v \in vs : v.projectId = projectId}
VersionIdsOf(vs) == {v.id : v \in vs}
VersionById(vs, id) == CHOOSE v \in vs : v.id = id
SecretsOfVersion(ss, versionId) == {s \in ss : s.projectVersionId = versionId}

\* select ... from project_versions where id = versionId and project_id = projectId limit 1
SelectVersion(vs, versionId, projectId) ==
    {v \in vs : v.id = versionId /\ v.projectId = projectId}

\* update projects set current_dev_version_id = versionId where id = projectId
UpdatePointerIfUnset(ps, projectId, versionId) ==
    IF ps[projectId].exists /\ ps[projectId].currentDevVersionId = NULL
    THEN [ps EXCEPT ![projectId].currentDevVersionId = versionId]
    ELSE ps
UpdatePointer(ps, projectId, versionId) ==
    IF ps[projectId].exists
    THEN [ps EXCEPT ![projectId].currentDevVersionId = versionId]
    ELSE ps

\* insert into project_secrets: the foreign key needs the version row
CanInsertSecret(vs, versionId) == versionId \in VersionIdsOf(vs)
InsertSecret(ss, versionId, plaintext) ==
    LET n == Cardinality(SecretsOfVersion(ss, versionId)) + 1
    IN  ss \cup {SecretRow(versionId, n, encrypt(plaintext, <<versionId, n>>))}

\* insert into project_versions: the foreign key needs the project row
CanInsertVersion(ps, projectId) == ps[projectId].exists

\* a commit hash no version and no repository has seen yet
MaxOf(S) == CHOOSE x \in S : \A y \in S : y <= x
FreshCommit(vs, heads) ==
    1 + MaxOf({v.gitCommitHash : v \in vs} \cup {heads[p] : p \in ProjectIds})

\* insert into project_versions ... returning
InsertVersionUpsert(vs, row) ==
    {IF v.projectId = row.projectId
     THEN [v EXCEPT !.gitCommitHash = row.gitCommitHash,
                    !.neonSnapshotId = row.neonSnapshotId]
     ELSE v : v \in vs} \cup {row}
InsertVersion(vs, row) == vs \cup {row}

\* delete from project_secrets where project_version_id in versionIds
DeleteSecretsIn(ss, versionIds) == {s \in ss : s.projectVersionId \notin versionIds}

\* delete from project_versions where project_id = projectId; the foreign key of
\* project_secrets rejects the statement while a secrets row references a victim
CanDeleteVersions(vs, ss, projectId) ==
    \A s \in ss : s.projectVersionId \notin VersionIdsOf(VersionsOfProject(vs, projectId))
DeleteVersions(vs, projectId) == {v \in vs : v.projectId # projectId}

\* delete from projects where id = projectId; the foreign key of project_versions
\* rejects the statement while a version row references the project
CanDeleteProjectAlways(vs, projectId) == TRUE
CanDeleteProject(vs, projectId) == VersionsOfProject(vs, projectId) = {}

----------------------------------------------------------------------------
(* Environment variables of a project: the plaintext of a secrets bundle *)

\* buildSecretsFromNeonAuth(neonAuth, databaseUrl), and JSON.stringify of it as
\* saveProjectSecrets stores it
InitialEnvVars ==
    <<<<"NEXT_PUBLIC_STACK_PROJECT_ID", "pid">>,
      <<"NEXT_PUBLIC_STACK_PUBLISHABLE_CLIENT_KEY", "pck">>,
      <<"STACK_SECRET_SERVER_KEY", "ssk">>,
      <<"DATABASE_URL", "url">>>>
InitialEnv == JSONStringify(InitialEnvVars)

\* runtimeContext.get("environmentVariables") of the agent, and its JSON text
AgentEnvVars == <<<<"DATABASE_URL", "url">>, <<"AGENT_KEY", "key">>>>
AgentEnv == JSONStringify(AgentEnvVars)

----------------------------------------------------------------------------
(* initalizeFirstProjectVersion (workflow) *)

InitFanOut1 == {"initNeonAuth", "getDatabaseConnectionUri", "getLatestCommitHash",
                "createBackendSnapshot"}
InitFanOut2 == {"saveProjectSecrets", "setCurrentDevVersion", "warmUpDevServer"}

\* a step before the version insert throws: the run fails, and the steps of the same
\* Promise.all still in flight write nothing to the store
InitRejected ==
    [init EXCEPT !.pc = "end", !.status = "failed", !.done = {},
                 !.commitHash = NULL, !.snapshotId = NULL]

\* the guard on project.backendType and project.backendProjectId, then
\* const prodBranch = await getNeonProductionBranch(project.backendProjectId)
InitGetNeonProductionBranch ==
    /\ init.pc = "start"
    /\ \E ok \in BOOLEAN :
         init' = IF ~SupportsInitialVersion(cfg)
                 THEN [InitRejected EXCEPT !.error = "config"]
                 ELSE IF ok THEN [init EXCEPT !.pc = "fan1"] ELSE InitRejected
    /\ UNCHANGED <<storeVars, worldVars, ckpt, del, restore, agent, poll, neonVars>>

\* initNeonAuth and getDatabaseConnectionUri of the first Promise.all
InitExternalStep ==
    /\ init.pc = "fan1"
    /\ \E step \in {"initNeonAuth", "getDatabaseConnectionUri"} \ init.done :
       \E ok \in BOOLEAN :
         init' = IF ok THEN [init EXCEPT !.done = @ \cup {step}]
                 ELSE InitRejected
    /\ UNCHANGED <<storeVars, worldVars, ckpt, del, restore, agent, poll, neonVars>>

\* getLatestCommitHash(project.repoId)
InitGetLatestCommitHash ==
    /\ init.pc = "fan1"
    /\ "getLatestCommitHash" \notin init.done
    /\ \E ok \in BOOLEAN :
         init' = IF ok THEN [init EXCEPT !.done = @ \cup {"getLatestCommitHash"},
                                         !.commitHash = gitHead[init.project]]
                 ELSE InitRejected
    /\ UNCHANGED <<storeVars, worldVars, ckpt, del, restore, agent, poll, neonVars>>

\* createBackendSnapshot(project)
InitCreateBackendSnapshot ==
    /\ init.pc = "fan1"
    /\ "createBackendSnapshot" \notin init.done
    /\ \E ok \in BOOLEAN :
         IF getBackendAdapter(cfg).error # "none"
         THEN /\ init' = [InitRejected EXCEPT !.error = "config"]
         ELSE IF ok
         THEN /\ init' = [init EXCEPT !.done = @ \cup {"createBackendSnapshot"},
                                      !.snapshotId = InitRunId]
         ELSE /\ init' = InitRejected
    /\ UNCHANGED <<storeVars, gitHead, appliedSnapshot, ckpt, del, restore, agent, poll, neonVars>>

\* the values createInitialVersion inserts
InitialVersionValuesAsCheckpoint(id, projectId, gitCommitHash, neonSnapshotId) ==
    VersionRow(id, projectId, gitCommitHash, neonSnapshotId, "msg_1", CheckpointSummary)
InitialVersionValues(id, projectId, gitCommitHash, neonSnapshotId) ==
    VersionRow(id, projectId, gitCommitHash, neonSnapshotId, NoMessage, InitialSummary)

\* await Promise.all([...]) returns once every step of it has returned
SomeReturned(done, steps) == done \cap steps # {}
AllReturned(done, steps) == done = steps

\* const initialVersion = await createInitialVersion(project.id, hash, snapshotId)
InitCreateInitialVersion ==
    /\ init.pc = "fan1"
    /\ AllReturned(init.done, InitFanOut1)
    /\ init.status = "running"
    /\ IF CanInsertVersion(projects, init.project)
       THEN /\ versions' = InsertVersion(versions,
                   InitialVersionValues(InitRunId, init.project,
                                        init.commitHash, init.snapshotId))
            /\ init' = [init EXCEPT !.pc = "fan2", !.done = {},
                                    !.versionId = InitRunId]
       ELSE /\ init' = InitRejected
            /\ UNCHANGED versions
    /\ UNCHANGED <<projects, secrets, worldVars, ckpt, del, restore, agent, poll, neonVars>>

\* saveProjectSecrets(initialVersion.id, secrets)
InitSaveProjectSecrets ==
    /\ init.pc = "fan2"
    /\ "saveProjectSecrets" \notin init.done
    /\ IF CanInsertSecret(versions, init.versionId)
       THEN /\ secrets' = InsertSecret(secrets, init.versionId, InitialEnv)
            /\ init' = [init EXCEPT !.done = @ \cup {"saveProjectSecrets"}]
       ELSE /\ init' = [init EXCEPT !.done = @ \cup {"saveProjectSecrets"},
                                    !.status = "failed"]
            /\ UNCHANGED secrets
    /\ UNCHANGED <<projects, versions, worldVars, ckpt, del, restore,
                   agent, poll, neonVars>>

\* setCurrentDevVersion(project.id, initialVersion.id)
InitSetCurrentDevVersion ==
    /\ init.pc = "fan2"
    /\ "setCurrentDevVersion" \notin init.done
    /\ projects' = UpdatePointer(projects, init.project, init.versionId)
    /\ init' = [init EXCEPT !.done = @ \cup {"setCurrentDevVersion"}]
    /\ UNCHANGED <<versions, secrets, worldVars, ckpt, del, restore,
                   agent, poll, neonVars>>

\* requestDevServer(project, secrets) as warmUpDevServer calls it: the promise is
\* dropped, so the request is in flight when the step returns and nothing is told
\* of its outcome
NoDevServerRequest == [pc |-> "none", project |-> "p1"]
DevServerRequested(projectId) == [pc |-> "requested", project |-> projectId]
\* await freestyleService.requestDevServer(...), then await addAuthDomain(...)
DevServerNext(pc) ==
    CASE pc = "requested" -> {"devServerReady", "failed"}
      [] pc = "devServerReady" -> {"allowlisted", "failed"}
      [] OTHER -> {}

\* what the workflow returns once the three steps of the last Promise.all returned
ResultOfWarmUp(w) == IF w.pc = "failed" THEN "failed" ELSE "success"
ResultAfterFanOut2(w) == "success"

\* warmUpDevServer(project, secrets): requestDevServer is called and not awaited
InitWarmUpDevServer ==
    /\ init.pc = "fan2"
    /\ "warmUpDevServer" \notin init.done
    /\ init' = [init EXCEPT !.done = @ \cup {"warmUpDevServer"}]
    /\ warm' = DevServerRequested(init.project)
    /\ UNCHANGED <<storeVars, worldVars, ckpt, del, restore, agent, poll, many, branch,
                   snap, apply, create, auth, cfg>>

\* the dropped promise of requestDevServer settles, at any time after the call:
\* freestyleService.requestDevServer or addAuthDomain answers or throws
WarmUpSettles ==
    /\ \E outcome \in DevServerNext(warm.pc) : warm' = [warm EXCEPT !.pc = outcome]
    /\ UNCHANGED <<storeVars, worldVars, init, ckpt, del, restore, agent, poll, many,
                   branch, snap, apply, create, auth, cfg>>

\* return { success: true, versionId: initialVersion.id }
InitReturn ==
    /\ init.pc = "fan2"
    /\ init.done = InitFanOut2
    /\ init.status = "running"
    /\ init' = [init EXCEPT !.pc = "end", !.status = ResultAfterFanOut2(warm),
                            !.done = {},
                            !.commitHash = NULL, !.snapshotId = NULL]
    /\ UNCHANGED <<storeVars, worldVars, ckpt, del, restore, agent, poll, neonVars>>

InitWorkflow ==
    \/ InitGetNeonProductionBranch
    \/ InitExternalStep
    \/ InitGetLatestCommitHash
    \/ InitCreateBackendSnapshot
    \/ InitCreateInitialVersion
    \/ InitSaveProjectSecrets
    \/ InitSetCurrentDevVersion
    \/ InitWarmUpDevServer
    \/ InitReturn

----------------------------------------------------------------------------
(* createManualCheckpoint (workflow) and the route that starts it *)

CkptFanOut1 == {"getLatestCommitHash", "createBackendSnapshot"}
CkptFanOut2 == {"copyProjectSecrets", "setCurrentDevVersion"}

\* the projects the workflows, the agent and deleteProject are run against
WorkflowProjects == {"p1"}

\* the operations started so far, besides the initialisation of the project
Started ==
    Cardinality({i \in Checkpoints : ckpt[i].status # "idle"})
    + (IF del.status # "idle" THEN 1 ELSE 0)
    + (IF agent.status # "idle" THEN 1 ELSE 0)
    + (IF restore.status # "idle" THEN 1 ELSE 0)

\* data.assistantMessageId ?? null: the first request carries none, the others one
RequestMessage(i) == IF i = 1 THEN NoMessage ELSE "msg_1"

\* POST checkpoint: 404 without the project row, 400 without a current dev version,
\* else start(createManualCheckpoint, [project, project.currentDevVersionId, msg])
StartCheckpoint(i) ==
    /\ ckpt[i].pc = "idle"
    /\ Started < MaxOperations
    /\ \E p \in WorkflowProjects :
         /\ projects[p].exists
         /\ projects[p].currentDevVersionId # NULL
         /\ ckpt' = [ckpt EXCEPT ![i] = [@ EXCEPT
                        !.pc = "fan1", !.status = "running", !.project = p,
                        !.currentDevVersionId = projects[p].currentDevVersionId,
                        !.assistantMessageId = RequestMessage(i)]]
    /\ UNCHANGED <<storeVars, worldVars, init, del, restore, agent, poll, neonVars>>

\* a step before the version insert throws: the run fails, and the step of the same
\* Promise.all still in flight writes nothing to the store
CkptRejected(c, error) ==
    [c EXCEPT !.pc = "end", !.status = "failed", !.error = error, !.done = {},
              !.commitHash = NULL, !.snapshotId = NULL]

\* getLatestCommitHash(project.repoId)
CkptGetLatestCommitHash(i) ==
    /\ ckpt[i].pc = "fan1"
    /\ "getLatestCommitHash" \notin ckpt[i].done
    /\ \E ok \in BOOLEAN :
         ckpt' = [ckpt EXCEPT ![i] =
                    IF ok THEN [@ EXCEPT !.done = @ \cup {"getLatestCommitHash"},
                                         !.commitHash = gitHead[ckpt[i].project]]
                    ELSE CkptRejected(@, "external")]
    /\ UNCHANGED <<storeVars, worldVars, init, del, restore, agent, poll, neonVars>>

\* createBackendSnapshot(project)
CkptCreateBackendSnapshot(i) ==
    /\ ckpt[i].pc = "fan1"
    /\ "createBackendSnapshot" \notin ckpt[i].done
    /\ \E ok \in BOOLEAN :
         IF getBackendAdapter(cfg).error # "none"
         THEN /\ ckpt' = [ckpt EXCEPT ![i] = CkptRejected(@, "config")]
         ELSE IF ok
         THEN /\ ckpt' = [ckpt EXCEPT ![i] = [@ EXCEPT
                            !.done = @ \cup {"createBackendSnapshot"},
                            !.snapshotId = CkptRunId(i)]]
         ELSE /\ ckpt' = [ckpt EXCEPT ![i] = CkptRejected(@, "external")]
    /\ UNCHANGED <<storeVars, gitHead, appliedSnapshot, init, del, restore, agent, poll, neonVars>>

\* the values createCheckpointVersion inserts
CheckpointVersionValues(id, projectId, gitCommitHash, neonSnapshotId, assistantMessageId) ==
    VersionRow(id, projectId, gitCommitHash, neonSnapshotId, assistantMessageId,
               CheckpointSummary)

\* const checkpointVersion = await createCheckpointVersion(project.id, hash, snap, msg)
CkptCreateCheckpointVersion(i) ==
    /\ ckpt[i].pc = "fan1"
    /\ ckpt[i].done = CkptFanOut1
    /\ ckpt[i].status = "running"
    /\ IF CanInsertVersion(projects, ckpt[i].project)
       THEN /\ versions' = InsertVersion(versions,
                   CheckpointVersionValues(CkptRunId(i), ckpt[i].project,
                       ckpt[i].commitHash, ckpt[i].snapshotId,
                       ckpt[i].assistantMessageId))
            /\ ckpt' = [ckpt EXCEPT ![i] = [@ EXCEPT
                          !.pc = "fan2", !.done = {}, !.versionId = CkptRunId(i)]]
       ELSE /\ ckpt' = [ckpt EXCEPT ![i] = CkptRejected(@, "constraint")]
            /\ UNCHANGED versions
    /\ UNCHANGED <<projects, secrets, worldVars, init, del, restore, agent, poll, neonVars>>

\* the rows copyProjectSecrets leaves in project_secrets: none added when the
\* source version has no bundle, else the decrypted bundle re-encrypted
CopySecretsAlways(ss, fromVersionId, toVersionId) ==
    InsertSecret(ss, toVersionId,
        IF SecretsOfVersion(ss, fromVersionId) = {} THEN InitialEnv
        ELSE decrypt((CHOOSE s \in SecretsOfVersion(ss, fromVersionId) : TRUE).secrets))
CopySecretsCiphertext(ss, fromVersionId, toVersionId) ==
    IF SecretsOfVersion(ss, fromVersionId) = {}
    THEN ss
    ELSE LET source == CHOOSE s \in SecretsOfVersion(ss, fromVersionId) :
                           \A t \in SecretsOfVersion(ss, fromVersionId) : s.n <= t.n
             n == Cardinality(SecretsOfVersion(ss, toVersionId)) + 1
         IN  ss \cup {SecretRow(toVersionId, n, source.secrets)}
CopySecrets(ss, fromVersionId, toVersionId) ==
    IF SecretsOfVersion(ss, fromVersionId) = {}
    THEN ss
    ELSE LET source == CHOOSE s \in SecretsOfVersion(ss, fromVersionId) :
                           \A t \in SecretsOfVersion(ss, fromVersionId) : s.n <= t.n
         IN  InsertSecret(ss, toVersionId,
                          JSONStringify(JSONParse(decrypt(source.secrets))))

\* the step throws only from its insert: without a source row it returns before
CopyThrowsWithoutSource(ss, vs, fromVersionId, toVersionId) ==
    SecretsOfVersion(ss, fromVersionId) = {} \/ ~CanInsertSecret(vs, toVersionId)
CopyThrows(ss, vs, fromVersionId, toVersionId) ==
    SecretsOfVersion(ss, fromVersionId) # {} /\ ~CanInsertSecret(vs, toVersionId)

\* the version copyProjectSecrets reads from: the workflow's second argument, the
\* pointer the route read when the checkpoint was requested
CopySourceIsPointer(c, ps) == ps[c.project].currentDevVersionId
CopySource(c, ps) == c.currentDevVersionId

\* copyProjectSecrets(currentDevVersionId, checkpointVersion.id)
CkptCopyProjectSecrets(i) ==
    /\ ckpt[i].pc = "fan2"
    /\ "copyProjectSecrets" \notin ckpt[i].done
    /\ IF ~CopyThrows(secrets, versions, CopySource(ckpt[i], projects), ckpt[i].versionId)
       THEN /\ secrets' = CopySecrets(secrets, CopySource(ckpt[i], projects),
                                      ckpt[i].versionId)
            /\ ckpt' = [ckpt EXCEPT ![i] = [@ EXCEPT
                          !.done = @ \cup {"copyProjectSecrets"},
                          !.copied = IF SecretsOfVersion(secrets,
                                           CopySource(ckpt[i], projects)) = {}
                                     THEN "skipped" ELSE "copied"]]
       ELSE /\ ckpt' = [ckpt EXCEPT ![i] = [@ EXCEPT
                          !.done = @ \cup {"copyProjectSecrets"},
                          !.status = "failed", !.error = "constraint"]]
            /\ UNCHANGED secrets
    /\ UNCHANGED <<projects, versions, worldVars, init, del, restore,
                   agent, poll, neonVars>>

\* setCurrentDevVersion(project.id, checkpointVersion.id)
CkptSetCurrentDevVersion(i) ==
    /\ ckpt[i].pc = "fan2"
    /\ "setCurrentDevVersion" \notin ckpt[i].done
    /\ projects' = UpdatePointer(projects, ckpt[i].project, ckpt[i].versionId)
    /\ ckpt' = [ckpt EXCEPT ![i] = [@ EXCEPT !.done = @ \cup {"setCurrentDevVersion"}]]
    /\ UNCHANGED <<versions, secrets, worldVars, init, del, restore,
                   agent, poll, neonVars>>

\* return { success: true, versionId: checkpointVersion.id }
CkptReturn(i) ==
    /\ ckpt[i].pc = "fan2"
    /\ ckpt[i].done = CkptFanOut2
    /\ ckpt[i].status = "running"
    /\ ckpt' = [ckpt EXCEPT ![i] = [@ EXCEPT !.pc = "end", !.status = "success",
                                            !.done = {}, !.commitHash = NULL,
                                            !.snapshotId = NULL]]
    /\ UNCHANGED <<storeVars, worldVars, init, del, restore, agent, poll, neonVars>>

CheckpointWorkflow ==
    \E i \in Checkpoints :
        \/ StartCheckpoint(i)
        \/ CkptGetLatestCommitHash(i)
        \/ CkptCreateBackendSnapshot(i)
        \/ CkptCreateCheckpointVersion(i)
        \/ CkptCopyProjectSecrets(i)
        \/ CkptSetCurrentDevVersion(i)
        \/ CkptReturn(i)

----------------------------------------------------------------------------
(* deleteProject (workflow) *)

DeleteTeardown == {"deleteFreestyleRepository", "deleteBackendProject",
                   "deleteAssistantUIThread"}

\* the workflow is started with the project row the caller read
StartDelete ==
    /\ del.pc = "idle"
    /\ Started < MaxOperations
    /\ \E p \in WorkflowProjects :
         /\ projects[p].exists
         /\ del' = [del EXCEPT !.pc = "getProjectVersionIds", !.status = "running",
                               !.project = p]
    /\ UNCHANGED <<storeVars, worldVars, init, ckpt, restore, agent, poll, neonVars>>

\* a step throws: the run fails; no step in flight with it writes to the store
DelRejected ==
    [del EXCEPT !.pc = "end", !.status = "failed", !.done = {}, !.versionIds = {}]

\* const versionIds = await getProjectVersionIds(project.id)
DelGetProjectVersionIds ==
    /\ del.pc = "getProjectVersionIds"
    /\ del' = [del EXCEPT !.pc = "clearCurrentDevVersion",
                          !.versionIds = VersionIdsOf(VersionsOfProject(versions,
                                                                        del.project))]
    /\ UNCHANGED <<storeVars, worldVars, init, ckpt, restore, agent, poll, neonVars>>

\* if (versionIds.length > 0) { await deleteProjectSecrets(versionIds) }
StepAfterClearVersionsFirst(versionIds) == "deleteProjectVersions"
StepAfterClear(versionIds) ==
    IF versionIds # {} THEN "deleteProjectSecrets" ELSE "deleteProjectVersions"

\* the external teardown has no compensation: a failure in it leaves the store as
\* the deletes left it
StoreAfterTeardownRestored(ps, projectId) == [ps EXCEPT ![projectId].exists = TRUE]
StoreAfterTeardown(ps, projectId) == ps

\* await clearCurrentDevVersion(project.id); if (versionIds.length > 0) ...
DelClearCurrentDevVersion ==
    /\ del.pc = "clearCurrentDevVersion"
    /\ projects' = UpdatePointer(projects, del.project, NULL)
    /\ del' = [del EXCEPT !.pc = StepAfterClear(del.versionIds)]
    /\ UNCHANGED <<versions, secrets, worldVars, init, ckpt, restore,
                   agent, poll, neonVars>>

\* await deleteProjectSecrets(versionIds)
DelDeleteProjectSecrets ==
    /\ del.pc = "deleteProjectSecrets"
    /\ secrets' = DeleteSecretsIn(secrets, del.versionIds)
    /\ del' = [del EXCEPT !.pc = "deleteProjectVersions"]
    /\ UNCHANGED <<projects, versions, worldVars, init, ckpt, restore,
                   agent, poll, neonVars>>

\* await deleteProjectVersions(project.id)
DelDeleteProjectVersions ==
    /\ del.pc = "deleteProjectVersions"
    /\ IF CanDeleteVersions(versions, secrets, del.project)
       THEN /\ versions' = DeleteVersions(versions, del.project)
            /\ del' = [del EXCEPT !.pc = "deleteProjectRecord"]
       ELSE /\ del' = DelRejected
            /\ UNCHANGED versions
    /\ UNCHANGED <<projects, secrets, worldVars, init, ckpt, restore,
                   agent, poll, neonVars>>

\* await deleteProjectRecord(project.id)
DelDeleteProjectRecord ==
    /\ del.pc = "deleteProjectRecord"
    /\ IF CanDeleteProject(versions, del.project)
       THEN /\ projects' = [projects EXCEPT ![del.project] =
                               [exists |-> FALSE, currentDevVersionId |-> NULL]]
            /\ del' = [del EXCEPT !.pc = "teardown"]
       ELSE /\ del' = DelRejected
            /\ UNCHANGED projects
    /\ UNCHANGED <<versions, secrets, worldVars, init, ckpt, restore,
                   agent, poll, neonVars>>

\* Promise.all([deleteFreestyleRepository, deleteBackendProject, deleteAssistantUIThread])
DelTeardownStep ==
    /\ del.pc = "teardown"
    /\ \E step \in DeleteTeardown \ del.done :
       \E ok \in BOOLEAN :
         /\ del' = IF step = "deleteBackendProject"
                      /\ getBackendAdapter(cfg).error # "none"
                    THEN [DelRejected EXCEPT !.error = "config"]
                    ELSE IF ok THEN [del EXCEPT !.done = @ \cup {step}]
                    ELSE DelRejected
         /\ projects' = IF ok /\ del'.status # "failed" THEN projects
                         ELSE StoreAfterTeardown(projects, del.project)
    /\ UNCHANGED <<versions, secrets, worldVars, init, ckpt, restore, agent, poll,
                   neonVars>>

\* return { success: true }
DelReturn ==
    /\ del.pc = "teardown"
    /\ del.done = DeleteTeardown
    /\ del.status = "running"
    /\ del' = [del EXCEPT !.pc = "end", !.status = "success", !.done = {},
                          !.versionIds = {}]
    /\ UNCHANGED <<storeVars, worldVars, init, ckpt, restore, agent, poll, neonVars>>

DeleteWorkflow ==
    \/ StartDelete
    \/ DelGetProjectVersionIds
    \/ DelClearCurrentDevVersion
    \/ DelDeleteProjectSecrets
    \/ DelDeleteProjectVersions
    \/ DelDeleteProjectRecord
    \/ DelTeardownStep
    \/ DelReturn

----------------------------------------------------------------------------
(* freestyle-commit-and-push (agent tool): one try block, any throw is caught *)

AgentMessage == "msg_agent"

\* the tools are built for the project of the runtime context
StartAgent ==
    /\ agent.pc = "idle"
    /\ Started < MaxOperations
    /\ \E p \in WorkflowProjects :
         /\ projects[p].exists
         /\ agent' = [agent EXCEPT !.pc = "commitAndPush", !.status = "running",
                                   !.project = p]
    /\ UNCHANGED <<storeVars, worldVars, init, ckpt, del, restore, poll, neonVars>>

\* catch (error) { return { success: false, ... } }
AgentCaught ==
    [agent EXCEPT !.pc = "end", !.status = "failure", !.commitHash = NULL,
                  !.snapshotId = NULL]

\* the awaited statements of execute, in program order
AgentNextPointerBeforeSecrets(pc) ==
    CASE pc = "commitAndPush" -> "getLatestCommit"
      [] pc = "getLatestCommit" -> "snapshot"
      [] pc = "snapshot" -> "insertVersion"
      [] pc = "insertVersion" -> "updateProject"
      [] OTHER -> "end"
AgentNext(pc) ==
    CASE pc = "commitAndPush" -> "getLatestCommit"
      [] pc = "getLatestCommit" -> "snapshot"
      [] pc = "snapshot" -> "insertVersion"
      [] pc = "insertVersion" -> "insertSecrets"
      [] pc = "insertSecrets" -> "updateProject"
      [] OTHER -> "end"

\* await commitAndPush(context.message)
AgentCommitAndPush ==
    /\ agent.pc = "commitAndPush"
    /\ \E ok \in BOOLEAN :
         IF ok
         THEN /\ gitHead' = [gitHead EXCEPT ![agent.project] =
                                FreshCommit(versions, gitHead)]
              /\ agent' = [agent EXCEPT !.pc = AgentNext(@)]
         ELSE /\ agent' = AgentCaught
              /\ UNCHANGED gitHead
    /\ UNCHANGED <<storeVars, appliedSnapshot, init, ckpt, del, restore,
                   poll, neonVars>>

\* const commitHash = await freestyleService.getLatestCommit(repoId)
AgentGetLatestCommit ==
    /\ agent.pc = "getLatestCommit"
    /\ \E ok \in BOOLEAN :
         agent' = IF ok THEN [agent EXCEPT !.pc = AgentNext(@),
                                           !.commitHash = gitHead[agent.project]]
                  ELSE AgentCaught
    /\ UNCHANGED <<storeVars, worldVars, init, ckpt, del, restore, poll, neonVars>>

\* const snapshot = await getBackendAdapter(project).snapshot(project.id)
AgentSnapshot ==
    /\ agent.pc = "snapshot"
    /\ \E ok \in BOOLEAN :
         IF ok
         THEN /\ agent' = [agent EXCEPT !.pc = AgentNext(@),
                                        !.snapshotId = AgentRunId]
         ELSE /\ agent' = AgentCaught
    /\ UNCHANGED <<storeVars, gitHead, appliedSnapshot, init, ckpt, del, restore, poll, neonVars>>

\* the values the tool inserts into project_versions
AgentVersionValues(id, projectId, gitCommitHash, neonSnapshotId) ==
    VersionRow(id, projectId, gitCommitHash, neonSnapshotId, AgentMessage, AgentSummary)

\* const [version] = await db.insert(projectVersionsTable).values(...).returning()
AgentInsertVersion ==
    /\ agent.pc = "insertVersion"
    /\ IF CanInsertVersion(projects, agent.project)
       THEN /\ versions' = InsertVersion(versions,
                   AgentVersionValues(AgentRunId, agent.project, agent.commitHash,
                                      agent.snapshotId))
            /\ agent' = [agent EXCEPT !.pc = AgentNext(@),
                                      !.versionId = AgentRunId]
       ELSE /\ agent' = AgentCaught
            /\ UNCHANGED versions
    /\ UNCHANGED <<projects, secrets, worldVars, init, ckpt, del, restore, poll, neonVars>>

\* await db.insert(projectSecretsTable).values({ projectVersionId: version.id, ... })
AgentInsertSecrets ==
    /\ agent.pc = "insertSecrets"
    /\ IF CanInsertSecret(versions, agent.versionId)
       THEN /\ secrets' = InsertSecret(secrets, agent.versionId, AgentEnv)
            /\ agent' = [agent EXCEPT !.pc = AgentNext(@)]
       ELSE /\ agent' = AgentCaught
            /\ UNCHANGED secrets
    /\ UNCHANGED <<projects, versions, worldVars, init, ckpt, del,
                   restore, poll, neonVars>>

\* await db.update(projectsTable).set({ currentDevVersionId: version.id }); return
AgentUpdateProject ==
    /\ agent.pc = "updateProject"
    /\ projects' = UpdatePointer(projects, agent.project, agent.versionId)
    /\ agent' = [agent EXCEPT !.pc = AgentNext(@), !.status = "success",
                              !.commitHash = NULL,
                              !.snapshotId = NULL]
    /\ UNCHANGED <<versions, secrets, worldVars, init, ckpt, del,
                   restore, poll, neonVars>>

AgentTool ==
    \/ StartAgent
    \/ AgentCommitAndPush
    \/ AgentGetLatestCommit
    \/ AgentSnapshot
    \/ AgentInsertVersion
    \/ AgentInsertSecrets
    \/ AgentUpdateProject

----------------------------------------------------------------------------
(* POST restore version (route handler): one try block, any throw gives a 500 *)

\* the awaited statements of the handler, in program order
RestoreStepsPointerFirst ==
    <<"selectProject", "selectVersion", "selectSecrets", "requestDevServer",
      "setMainBranchToCommit", "getAllBranches", "updateProject", "applySnapshot">>
RestoreStepsDevServerFirst ==
    <<"selectProject", "selectVersion", "requestDevServer", "selectSecrets",
      "setMainBranchToCommit", "getAllBranches", "applySnapshot", "updateProject">>
RestoreStepsSnapshotFirst ==
    <<"selectProject", "selectVersion", "selectSecrets", "requestDevServer",
      "applySnapshot", "getAllBranches", "setMainBranchToCommit", "updateProject">>
RestoreSteps ==
    <<"selectProject", "selectVersion", "selectSecrets", "requestDevServer",
      "setMainBranchToCommit", "getAllBranches", "applySnapshot", "updateProject">>

NoVersion == VersionRow(NULL, "none", NULL, NULL, NoMessage, "none")

RestoreAt(step) ==
    /\ restore.status = "running"
    /\ restore.pc \in 1..Len(RestoreSteps)
    /\ RestoreSteps[restore.pc] = step

\* the response leaves the handler
RestoreRespond(r, status) ==
    [r EXCEPT !.pc = 0, !.status = status, !.version = NoVersion, !.versionId = NULL,
              !.before = NULL]

\* the handler goes on to its next awaited statement, or responds 200 after the last
RestoreAdvance(r) ==
    IF r.pc = Len(RestoreSteps)
    THEN RestoreRespond(r, "ok")
    ELSE [r EXCEPT !.pc = @ + 1]

\* a request names any project and any version id, existing or not
StartRestore ==
    /\ restore.status = "idle"
    /\ Started < MaxOperations
    /\ \E p \in ProjectIds, v \in AllVersionIds :
         restore' = [restore EXCEPT !.pc = 1, !.status = "running",
                                    !.projectId = p, !.versionId = v]
    /\ UNCHANGED <<storeVars, worldVars, init, ckpt, del, agent, poll, neonVars>>

\* const [project] = await db.select().from(projectsTable)...; 404 if absent
RestoreSelectProject ==
    /\ RestoreAt("selectProject")
    /\ \E ok \in BOOLEAN :
         restore' =
           IF ~ok THEN RestoreRespond(restore, "error")
           ELSE IF ~projects[restore.projectId].exists
                THEN RestoreRespond(restore, "notfound")
                ELSE RestoreAdvance([restore EXCEPT !.before =
                         projects[restore.projectId].currentDevVersionId])
    /\ UNCHANGED <<storeVars, worldVars, init, ckpt, del, agent, poll, neonVars>>

\* const [version] = await db.select().from(projectVersionsTable)...; 404 if absent
RestoreSelectVersion ==
    /\ RestoreAt("selectVersion")
    /\ \E ok \in BOOLEAN :
         restore' =
           IF ~ok THEN RestoreRespond(restore, "error")
           ELSE LET found == SelectVersion(versions, restore.versionId,
                                           restore.projectId)
                IN  IF found = {} THEN RestoreRespond(restore, "notfound")
                    ELSE RestoreAdvance([restore EXCEPT !.version =
                                             CHOOSE v \in found : TRUE])
    /\ UNCHANGED <<storeVars, worldVars, init, ckpt, del, agent, poll, neonVars>>

\* const [versionSecrets] = await db.select()...; 404 if absent; decrypt, JSON.parse
RestoreSelectSecrets ==
    /\ RestoreAt("selectSecrets")
    /\ \E ok \in BOOLEAN :
         restore' =
           IF ~ok THEN RestoreRespond(restore, "error")
           ELSE IF SecretsOfVersion(secrets, restore.versionId) = {}
                THEN RestoreRespond(restore, "notfound")
                ELSE RestoreAdvance(restore)
    /\ UNCHANGED <<storeVars, worldVars, init, ckpt, del, agent, poll, neonVars>>

\* const devServerResponse = await requestDevServer(project, secretsData)
RestoreRequestDevServer ==
    /\ RestoreAt("requestDevServer")
    /\ \E ok \in BOOLEAN :
         restore' = IF ok THEN RestoreAdvance(restore)
                    ELSE RestoreRespond(restore, "error")
    /\ UNCHANGED <<storeVars, worldVars, init, ckpt, del, agent, poll, neonVars>>

\* await freestyleService.setMainBranchToCommit(process, version.gitCommitHash)
RestoreSetMainBranchToCommit ==
    /\ RestoreAt("setMainBranchToCommit")
    /\ \E ok \in BOOLEAN :
         IF ok
         THEN /\ gitHead' = [gitHead EXCEPT ![restore.projectId] =
                                restore.version.gitCommitHash]
              /\ restore' = RestoreAdvance([restore EXCEPT !.reset = TRUE])
         ELSE /\ restore' = RestoreRespond(restore, "error")
              /\ UNCHANGED gitHead
    /\ UNCHANGED <<storeVars, appliedSnapshot, init, ckpt, del, agent,
                   poll, neonVars>>

\* const branches = await neonService.getAllBranches(id); throw without a main branch
RestoreGetAllBranches ==
    /\ RestoreAt("getAllBranches")
    /\ \E ok \in BOOLEAN :
         restore' = IF ok THEN RestoreAdvance(restore)
                    ELSE RestoreRespond(restore, "error")
    /\ UNCHANGED <<storeVars, worldVars, init, ckpt, del, agent, poll, neonVars>>

\* await neonService.applySnapshot(id, version.neonSnapshotId, mainBranch.id): the
\* request is rejected, or it is accepted and the wait for its operations
\* either settles or throws
RestoreApplySnapshot ==
    /\ RestoreAt("applySnapshot")
    /\ \E outcome \in {"settled", "rejected", "waitThrew"} :
         IF outcome = "rejected"
         THEN /\ restore' = RestoreRespond(restore, "error")
              /\ UNCHANGED appliedSnapshot
         ELSE /\ appliedSnapshot' = [appliedSnapshot EXCEPT ![restore.projectId] =
                                        restore.version.neonSnapshotId]
              /\ restore' =
                   IF outcome = "settled"
                   THEN RestoreAdvance([restore EXCEPT !.applied = "completed"])
                   ELSE RestoreRespond([restore EXCEPT !.applied = "requested"],
                                       "error")
    /\ UNCHANGED <<storeVars, gitHead, init, ckpt, del, agent, poll, neonVars>>

\* await db.update(projectsTable).set({ currentDevVersionId: version.id })
RestoreUpdateProject ==
    /\ RestoreAt("updateProject")
    /\ \E ok \in BOOLEAN :
         IF ok
         THEN /\ projects' = UpdatePointer(projects, restore.projectId,
                                           restore.version.id)
              /\ restore' = RestoreAdvance([restore EXCEPT !.wrote = TRUE])
         ELSE /\ restore' = RestoreRespond(restore, "error")
              /\ UNCHANGED projects
    /\ UNCHANGED <<versions, secrets, worldVars, init, ckpt, del, agent,
                   poll, neonVars>>

\* the response is out; the handler serves the next request
RestoreAgain ==
    /\ restore.status \in {"ok", "notfound", "error"}
    /\ restore' = [restore EXCEPT !.status = "idle", !.reset = FALSE,
                                  !.applied = "no", !.wrote = FALSE]
    /\ UNCHANGED <<storeVars, worldVars, init, ckpt, del, agent, poll, neonVars>>

RestoreHandler ==
    \/ StartRestore
    \/ RestoreSelectProject
    \/ RestoreSelectVersion
    \/ RestoreSelectSecrets
    \/ RestoreRequestDevServer
    \/ RestoreSetMainBranchToCommit
    \/ RestoreGetAllBranches
    \/ RestoreApplySnapshot
    \/ RestoreUpdateProject

----------------------------------------------------------------------------
(* NeonService.waitForOperationToSettle and the operation it watches *)

OperationStatus == {"scheduling", "running", "finished", "failed", "cancelling",
                    "cancelled", "skipped"}

\* the control-plane moves an operation forward; the four outcomes are final
RemoteNext(status) ==
    CASE status = "scheduling" -> {"running", "skipped", "cancelling"}
      [] status = "running"    -> {"finished", "failed", "cancelling"}
      [] status = "cancelling" -> {"cancelled"}
      [] OTHER                 -> {}

isTerminalOperationStatusNoFinished(status) ==
    status = "skipped" \/ status = "cancelled"
isTerminalOperationStatus(status) ==
    status = "finished" \/ status = "skipped" \/ status = "cancelled"

\* if (Date.now() - startedAt > timeoutMs) throw
TimedOutNever(now, startedAt, timeoutMs) == FALSE
TimedOut(now, startedAt, timeoutMs) == now - startedAt > timeoutMs

\* options.pollIntervalMs and options.timeoutMs, in units of the model's clock
PollIntervals == {1, 2}
Timeouts == {2, 4}

Tick(now, d) == IF now + d > MaxTime THEN MaxTime ELSE now + d

\* the operation changes status at the control-plane, at any moment: while the
\* poller sleeps that is some time before it wakes
RemoteStep ==
    /\ \E next \in RemoteNext(poll.remote),
          d \in 0..(IF poll.pc = "sleeping" THEN poll.pollIntervalMs ELSE 0) :
         /\ Tick(poll.now, d) >= poll.remoteAt
         /\ poll' = [poll EXCEPT !.remote = next, !.remoteAt = Tick(poll.now, d)]
    /\ UNCHANGED <<storeVars, worldVars, init, ckpt, del, restore, agent, neonVars>>

\* waitForOperationToSettle(neonProjectId, operationId, options): startedAt = Date.now()
StartPoll ==
    /\ poll.pc = "idle"
    /\ \E interval \in PollIntervals, timeout \in Timeouts, at \in 0..1 :
         poll' = [poll EXCEPT !.pc = "fetching", !.pollIntervalMs = interval,
                              !.timeoutMs = timeout, !.now = Tick(poll.now, at),
                              !.startedAt = Tick(poll.now, at)]
    /\ UNCHANGED <<storeVars, worldVars, init, ckpt, del, restore, agent, neonVars>>

\* one turn of the loop: the status fetch resolves (or throws), then the terminal
\* test, the timeout test and the start of the sleep follow without an await
PollFetch ==
    /\ poll.pc = "fetching"
    /\ \E latency \in 0..1, ok \in BOOLEAN :
         LET now == Tick(poll.now, latency)
             seen == [poll EXCEPT !.now = now, !.polls = @ + 1,
                                  !.status = poll.remote,
                                  !.first = IF @ = "none" THEN poll.remote ELSE @]
         IN  poll' =
               IF ~ok THEN [poll EXCEPT !.now = now, !.pc = "threw"]
               ELSE IF isTerminalOperationStatus(poll.remote)
                    THEN [seen EXCEPT !.pc = "returned", !.result = poll.remote]
               ELSE IF TimedOut(now, poll.startedAt, poll.timeoutMs)
                    THEN [seen EXCEPT !.pc = "timedout"]
               ELSE [seen EXCEPT !.pc = "sleeping", !.sleeps = @ + 1]
    /\ UNCHANGED <<storeVars, worldVars, init, ckpt, del, restore, agent, neonVars>>

\* await new Promise((r) => setTimeout(r, pollIntervalMs)): at least the interval
PollWake ==
    /\ poll.pc = "sleeping"
    /\ \E late \in 0..1 :
         poll' = [poll EXCEPT !.pc = "fetching",
                              !.now = Tick(poll.now, poll.pollIntervalMs + late)]
    /\ UNCHANGED <<storeVars, worldVars, init, ckpt, del, restore, agent, neonVars>>

Poller ==
    \/ RemoteStep
    \/ StartPoll
    \/ PollFetch
    \/ PollWake

----------------------------------------------------------------------------
(* NeonService.waitForOperationsToSettle: one wait per requested id *)

OperationIds == {"op1", "op2"}

\* the operationIds argument: none, one, two, or the same id twice
OperationIdLists == {<<>>, <<"op1">>, <<"op1", "op2">>, <<"op1", "op1">>}

Range(seq) == {seq[i] : i \in 1..Len(seq)}

\* a waitForOperationToSettle call at its first fetch
NewWait(operationId) ==
    [operationId |-> operationId, pc |-> "fetching", wakeAt |-> 0, result |-> "none",
     endedAt |-> 0]

WaitPolling(w) == w.pc \in {"fetching", "sleeping"}
WaitFailed(w) == w.pc \in {"timedout", "threw"}

\* Promise.all leaves the promises it was given alone: a rejection of one does not
\* reach the others
SiblingsCancelled(waits, i) ==
    [j \in DOMAIN waits |->
        IF j # i /\ WaitPolling(waits[j]) THEN [waits[j] EXCEPT !.pc = "cancelled"]
        ELSE waits[j]]
SiblingsAfterRejection(waits, i) == waits

\* Promise.all: rejects with the first rejection, fulfils when every wait has
\* returned, and once settled stays as it is
PromiseAllAny(pc, waits) ==
    IF pc # "waiting" THEN pc
    ELSE IF \E i \in DOMAIN waits : WaitFailed(waits[i]) THEN "rejected"
    ELSE IF \E i \in DOMAIN waits : waits[i].pc = "returned" THEN "resolved"
    ELSE "waiting"
PromiseAll(pc, waits) ==
    IF pc # "waiting" THEN pc
    ELSE IF \E i \in DOMAIN waits : WaitFailed(waits[i]) THEN "rejected"
    ELSE IF \A i \in DOMAIN waits : waits[i].pc = "returned" THEN "resolved"
    ELSE "waiting"

\* Object.fromEntries(entries): one key per distinct id, the last entry of a key wins
LastIndexOf(ids, id) ==
    CHOOSE i \in 1..Len(ids) : ids[i] = id /\ \A j \in 1..Len(ids) : ids[j] = id => j <= i
ObjectFromEntries(ids, waits) ==
    [id \in Range(ids) |-> waits[LastIndexOf(ids, id)].result]

NoEntries == [id \in {} |-> "none"]

\* the call as it stands once operationIds.map has started every wait
BeginWaits(m, ids, interval, timeout) ==
    LET waits == [i \in 1..Len(ids) |-> NewWait(ids[i])]
        pc == PromiseAll("waiting", waits)
    IN  [m EXCEPT !.pc = pc, !.operationIds = ids, !.waits = waits,
                  !.pollIntervalMs = interval, !.timeoutMs = timeout,
                  !.startedAt = m.now,
                  !.entries = IF pc = "resolved" THEN ObjectFromEntries(ids, waits)
                              ELSE NoEntries]

\* a wait of the call has moved: Promise.all settles if that decides it
AfterWaitStep(m, waits, i) ==
    LET pc == PromiseAll(m.pc, waits)
        left == IF WaitFailed(waits[i]) THEN SiblingsAfterRejection(waits, i) ELSE waits
    IN  [m EXCEPT !.waits = left, !.pc = pc,
                  !.entries = IF m.pc = "waiting" /\ pc = "resolved"
                              THEN ObjectFromEntries(m.operationIds, waits)
                              ELSE @]

\* one turn of a wait's loop, as in PollFetch
WaitFetch(w, remote, now, startedAt, interval, timeout, ok) ==
    IF ~ok THEN [w EXCEPT !.pc = "threw", !.endedAt = now]
    ELSE IF isTerminalOperationStatus(remote)
         THEN [w EXCEPT !.pc = "returned", !.result = remote, !.endedAt = now]
    ELSE IF TimedOut(now, startedAt, timeout)
         THEN [w EXCEPT !.pc = "timedout", !.endedAt = now]
    ELSE [w EXCEPT !.pc = "sleeping", !.wakeAt = Tick(now, interval)]

\* waitForOperationsToSettle(neonProjectId, operationIds, options)
StartMany ==
    /\ many.pc = "idle"
    /\ \E ids \in OperationIdLists, interval \in PollIntervals, timeout \in Timeouts :
         many' = BeginWaits(many, ids, interval, timeout)
    /\ UNCHANGED <<storeVars, worldVars, init, ckpt, del, restore, agent, poll, branch, snap, callVars>>

ManyFetch ==
    /\ \E i \in DOMAIN many.waits, ok \in BOOLEAN :
         /\ many.waits[i].pc = "fetching"
         /\ LET w == WaitFetch(many.waits[i], many.remote[many.waits[i].operationId],
                               many.now, many.startedAt, many.pollIntervalMs,
                               many.timeoutMs, ok)
            IN  many' = AfterWaitStep(many, [many.waits EXCEPT ![i] = w], i)
    /\ UNCHANGED <<storeVars, worldVars, init, ckpt, del, restore, agent, poll, branch, snap, callVars>>

ManyWake ==
    /\ \E i \in DOMAIN many.waits :
         /\ many.waits[i].pc = "sleeping"
         /\ many.now >= many.waits[i].wakeAt
         /\ many' = [many EXCEPT !.waits[i].pc = "fetching", !.waits[i].wakeAt = 0]
    /\ UNCHANGED <<storeVars, worldVars, init, ckpt, del, restore, agent, poll, branch, snap, callVars>>

\* time passes while some wait is still polling
ManyTick ==
    /\ \E i \in DOMAIN many.waits : WaitPolling(many.waits[i])
    /\ many.now < MaxTime
    /\ many' = [many EXCEPT !.now = Tick(@, 1)]
    /\ UNCHANGED <<storeVars, worldVars, init, ckpt, del, restore, agent, poll, branch, snap, callVars>>

\* an operation some wait is still polling changes status at the control-plane
ManyRemoteStep ==
    /\ \E i \in DOMAIN many.waits :
       \E next \in RemoteNext(many.remote[many.waits[i].operationId]) :
         /\ WaitPolling(many.waits[i])
         /\ many' = [many EXCEPT !.remote[many.waits[i].operationId] = next]
    /\ UNCHANGED <<storeVars, worldVars, init, ckpt, del, restore, agent, poll, branch, snap, callVars>>

WaitForMany ==
    \/ StartMany
    \/ ManyFetch
    \/ ManyWake
    \/ ManyTick
    \/ ManyRemoteStep

----------------------------------------------------------------------------
(* NeonService.getAllBranches and getProductionBranch *)

\* a property the JSON does not have, and a value that is not a string
Undefined == "undefined"
NotAString == "<number>"

\* BranchContainer: the branch fields at the top level or nested under "branch"
Container(id, name, branchId, branchName) ==
    [id |-> id, name |-> name, branch |-> [id |-> branchId, name |-> branchName]]

\* what the control-plane may list: main, production, a development branch, main
\* nested under "branch", a container without any id, and one whose id is a number
Containers ==
    {Container("b1", "main", Undefined, Undefined),
     Container("b2", "production", Undefined, Undefined),
     Container("b3", "dev", Undefined, Undefined),
     Container(Undefined, Undefined, "b4", "main"),
     Container(Undefined, "main", Undefined, Undefined),
     Container(NotAString, "main", Undefined, Undefined)}

\* the JSON body: a bare array, an object holding the array under one of the keys,
\* or something else
Shapes == {"array", "branches", "items", "data", "other"}

isBranchContainer(c) ==
    /\ c.id # NotAString
    /\ c.name # NotAString
    /\ c.branch.id # NotAString
    /\ c.branch.name # NotAString

isBranch(b) == b.id # Undefined /\ b.id # NotAString /\ b.name # NotAString

extractBranchContainers(body) ==
    IF body.shape \in {"array", "branches", "items", "data"}
    THEN SelectSeq(body.list, isBranchContainer)
    ELSE <<>>

\* container.id ?? container.branch?.id, and the same for the name
normalizeBranchTopLevelOnly(c) == [id |-> c.id, name |-> c.name]
normalizeBranch(c) ==
    [id |-> IF c.id # Undefined THEN c.id ELSE c.branch.id,
     name |-> IF c.name # Undefined THEN c.name ELSE c.branch.name]

MapSeq(seq, Op(_)) == [i \in 1..Len(seq) |-> Op(seq[i])]

\* items.map(normalizeBranch).filter(isBranch)
getAllBranches(body) ==
    SelectSeq(MapSeq(extractBranchContainers(body), normalizeBranch), isBranch)

NoBranch == [id |-> Undefined, name |-> Undefined]

\* branches.find(pred): the first element that satisfies it, or undefined
Find(branches, name) ==
    IF \E i \in 1..Len(branches) : branches[i].name = name
    THEN branches[CHOOSE i \in 1..Len(branches) :
                      /\ branches[i].name = name
                      /\ \A j \in 1..(i - 1) : branches[j].name # name]
    ELSE NoBranch

\* branches.find(main) ?? branches.find(production)
ProductionBranchOfProductionFirst(branches) ==
    IF Find(branches, "production") # NoBranch THEN Find(branches, "production")
    ELSE Find(branches, "main")
ProductionBranchOf(branches) ==
    IF Find(branches, "main") # NoBranch THEN Find(branches, "main")
    ELSE Find(branches, "production")

\* the restore handler's own choice of the branch to restore:
\* branches.find((b) => b.name === "main" || b.name === "master" || !b.parent_id),
\* with parentIds giving each listed branch its parent_id (Undefined for a root)
IsRestoreCandidate(b, parentIds) ==
    b.name = "main" \/ b.name = "master" \/ parentIds[b.id] = Undefined
RestoreMainBranchOf(branches, parentIds) ==
    IF \E i \in 1..Len(branches) : IsRestoreCandidate(branches[i], parentIds)
    THEN branches[CHOOSE i \in 1..Len(branches) :
                      /\ IsRestoreCandidate(branches[i], parentIds)
                      /\ \A j \in 1..(i - 1) :
                             ~IsRestoreCandidate(branches[j], parentIds)]
    ELSE NoBranch

NoCall == [id |-> "nocall", name |-> "nocall"]
Threw == [id |-> "threw", name |-> "threw"]

\* fetch(url, { cache: "no-store" }) in every call: the branch comes from the list
\* the control-plane holds now, whatever an earlier call returned
RederivedBranchCached(earlier, current) ==
    IF earlier \in {NoCall, Threw} THEN current ELSE earlier
RederivedBranch(earlier, current) == current

\* a branch is created or deleted at the control-plane (a restore does both), or the
\* listing is served in another shape
BranchCreated ==
    /\ \E c \in Containers :
         /\ Len(branch.remote.list) < MaxBranches
         /\ branch' = [branch EXCEPT !.remote.list = Append(@, c), !.changed = TRUE]
    /\ UNCHANGED <<storeVars, worldVars, init, ckpt, del, restore, agent, poll, many, snap, callVars>>

BranchDeleted ==
    /\ \E i \in 1..Len(branch.remote.list) :
         branch' = [branch EXCEPT
                       !.remote.list = SubSeq(@, 1, i - 1) \o SubSeq(@, i + 1, Len(@)),
                       !.changed = TRUE]
    /\ UNCHANGED <<storeVars, worldVars, init, ckpt, del, restore, agent, poll, many, snap, callVars>>

ListingReshaped ==
    /\ \E shape \in Shapes \ {branch.remote.shape} :
         branch' = [branch EXCEPT !.remote.shape = shape, !.changed = TRUE]
    /\ UNCHANGED <<storeVars, worldVars, init, ckpt, del, restore, agent, poll, many, snap, callVars>>

BranchesChange ==
    \/ BranchCreated
    \/ BranchDeleted
    \/ ListingReshaped

\* getProductionBranch(neonProjectId): getAllBranches, then the two finds
GetProductionBranch ==
    /\ \E ok \in BOOLEAN :
         LET found == ProductionBranchOf(getAllBranches(branch.remote))
         IN  branch' = [branch EXCEPT
                 !.prev = branch.last,
                 !.last = IF ok THEN RederivedBranch(branch.last, found) ELSE Threw,
                 !.changed = FALSE]
    /\ UNCHANGED <<storeVars, worldVars, init, ckpt, del, restore, agent, poll, many, snap, callVars>>

Branches ==
    \/ BranchesChange
    \/ GetProductionBranch

----------------------------------------------------------------------------
(* NeonService.createSnapshot, as createBackendSnapshot of a checkpoint run calls it *)

NoSnapshotCall == [pc |-> "idle", error |-> "none", requests |-> 0, branchId |-> Undefined]

\* invariant(prodBranch?.id, "Production branch not found")
HasProductionBranchAlways(found) == TRUE
HasProductionBranch(found) == found.id # Undefined

SnapshotCallOpen(i) ==
    /\ ckpt[i].pc = "fan1"
    /\ "createBackendSnapshot" \notin ckpt[i].done

\* const prodBranch = await this.getProductionBranch(neonProjectId); invariant(...)
SnapGetProductionBranch(i) ==
    /\ SnapshotCallOpen(i)
    /\ snap.calls[i].pc = "idle"
    /\ \E ok \in BOOLEAN :
         LET found == ProductionBranchOf(getAllBranches(branch.remote))
         IN  snap' = [snap EXCEPT !.calls[i] =
                 IF ~ok THEN [@ EXCEPT !.pc = "threw", !.error = "listing"]
                 ELSE IF ~HasProductionBranch(found)
                      THEN [@ EXCEPT !.pc = "threw", !.error = "nobranch"]
                 ELSE [@ EXCEPT !.pc = "posting", !.branchId = found.id]]
    /\ UNCHANGED <<storeVars, worldVars, init, ckpt, del, restore, agent, poll, many, branch, callVars>>

\* POST .../branches/{id}/snapshot: refused, or the snapshot is made and the
\* response carries its id or does not
SnapPost(i) ==
    /\ SnapshotCallOpen(i)
    /\ snap.calls[i].pc = "posting"
    /\ \E outcome \in {"created", "refused", "noid"} :
         snap' = [snap EXCEPT
             !.created = IF outcome = "refused" THEN @ ELSE @ \cup {CkptRunId(i)},
             !.calls[i] =
                 CASE outcome = "created" -> [@ EXCEPT !.pc = "returned", !.requests = @ + 1]
                   [] outcome = "refused" -> [@ EXCEPT !.pc = "threw", !.error = "http",
                                                       !.requests = @ + 1]
                   [] outcome = "noid"    -> [@ EXCEPT !.pc = "threw", !.error = "noid",
                                                       !.requests = @ + 1]]
    /\ UNCHANGED <<storeVars, worldVars, init, ckpt, del, restore, agent, poll, many, branch, callVars>>

\* createBackendSnapshot(project) of the run ends as its createSnapshot call did
CkptBackendSnapshot(i) ==
    /\ SnapshotCallOpen(i)
    /\ snap.calls[i].pc \in {"returned", "threw"}
    /\ ckpt' = [ckpt EXCEPT ![i] =
                  IF snap.calls[i].pc = "returned"
                  THEN [@ EXCEPT !.done = @ \cup {"createBackendSnapshot"},
                                 !.snapshotId = CkptRunId(i)]
                  ELSE CkptRejected(@, "external")]
    /\ UNCHANGED <<storeVars, worldVars, init, del, restore, agent, poll, neonVars>>

\* a manual checkpoint whose snapshot step is the createSnapshot call above
CheckpointWithSnapshot ==
    \E i \in Checkpoints :
        \/ StartCheckpoint(i)
        \/ CkptGetLatestCommitHash(i)
        \/ SnapGetProductionBranch(i)
        \/ SnapPost(i)
        \/ CkptBackendSnapshot(i)
        \/ CkptCreateCheckpointVersion(i)
        \/ CkptCopyProjectSecrets(i)
        \/ CkptSetCurrentDevVersion(i)
        \/ CkptReturn(i)

----------------------------------------------------------------------------
(* NeonService.applySnapshot, as the restore request calls it *)

\* pollIntervalMs = 5_000 and timeoutMs = 5 * 60_000 of waitForOperationToSettle,
\* on the model's clock: a wait polls a few times and then gives up
DefaultWaitOptions == [pollIntervalMs |-> 1, timeoutMs |-> 2]

\* json.operations of a response: the id of each operation, Undefined where the
\* operation carries none; a response without "operations" reads as the empty list
ResponseOperations ==
    {<<>>, <<"", Undefined>>, <<"op1">>, <<Undefined, "op1", "op2">>}

\* typeof id === "string" && id.length > 0
IsOperationId(id) == id # Undefined /\ id # NotAString /\ id # ""

\* (json.operations ?? []).map((op) => op.id).filter(...)
WaitedOperationIdsFirstOnly(operations) ==
    IF SelectSeq(operations, IsOperationId) = <<>> THEN <<>>
    ELSE <<Head(SelectSeq(operations, IsOperationId))>>
WaitedOperationIds(operations) == SelectSeq(operations, IsOperationId)

\* if (operationIds.length > 0)
NeedsWaitAlways(operationIds) == TRUE
NeedsWait(operationIds) == Len(operationIds) > 0

NoApplyCall == [pc |-> "idle", error |-> "none", operations |-> <<>>,
                operationIds |-> <<>>]

\* POST .../snapshots/{id}/restore: refused, or accepted with the operations of the
\* restore in the response; with operation ids the call goes on to wait for them
ApplySnapshotPost ==
    /\ RestoreAt("applySnapshot")
    /\ apply.pc = "idle"
    /\ \E ok \in BOOLEAN, operations \in ResponseOperations :
         LET operationIds == WaitedOperationIds(operations)
         IN  IF ~ok
             THEN /\ apply' = [apply EXCEPT !.pc = "threw", !.error = "http"]
                  /\ UNCHANGED <<appliedSnapshot, many>>
             ELSE /\ appliedSnapshot' = [appliedSnapshot EXCEPT ![restore.projectId] =
                                            restore.version.neonSnapshotId]
                  /\ IF NeedsWait(operationIds)
                     THEN /\ apply' = [apply EXCEPT !.pc = "waiting",
                                                    !.operations = operations,
                                                    !.operationIds = operationIds]
                          /\ many' = BeginWaits(many, operationIds,
                                                DefaultWaitOptions.pollIntervalMs,
                                                DefaultWaitOptions.timeoutMs)
                     ELSE /\ apply' = [apply EXCEPT !.pc = "returned",
                                                    !.operations = operations,
                                                    !.operationIds = operationIds]
                          /\ UNCHANGED many
    /\ UNCHANGED <<storeVars, gitHead, init, ckpt, del, restore, agent, poll, branch, snap,
                   create, auth, moreVars>>

\* await this.waitForOperationsToSettle(...): the call returns when the wait
\* resolves, whatever the statuses in it, and throws when the wait rejects
ApplySnapshotSettles ==
    /\ apply.pc = "waiting"
    /\ many.pc \in {"resolved", "rejected"}
    /\ apply' = IF many.pc = "resolved" THEN [apply EXCEPT !.pc = "returned"]
                ELSE [apply EXCEPT !.pc = "threw", !.error = "wait"]
    /\ UNCHANGED <<storeVars, worldVars, init, ckpt, del, restore, agent, poll, many, branch,
                   snap, create, auth, moreVars>>

\* await neonService.applySnapshot(...) in the restore handler ends as the call did
RestoreApplySnapshotEnds ==
    /\ RestoreAt("applySnapshot")
    /\ apply.pc \in {"returned", "threw"}
    /\ restore' =
         IF apply.pc = "returned"
         THEN RestoreAdvance([restore EXCEPT !.applied = "completed"])
         ELSE IF apply.error = "http" THEN RestoreRespond(restore, "error")
         ELSE RestoreRespond([restore EXCEPT !.applied = "requested"], "error")
    /\ UNCHANGED <<storeVars, worldVars, init, ckpt, del, agent, poll, neonVars>>

\* the restore handler with its applySnapshot step spelled out
RestoreWithApplySnapshot ==
    \/ StartRestore
    \/ RestoreSelectProject
    \/ RestoreSelectVersion
    \/ RestoreSelectSecrets
    \/ RestoreRequestDevServer
    \/ RestoreSetMainBranchToCommit
    \/ RestoreGetAllBranches
    \/ ApplySnapshotPost
    \/ ManyFetch
    \/ ManyWake
    \/ ManyTick
    \/ ManyRemoteStep
    \/ ApplySnapshotSettles
    \/ RestoreApplySnapshotEnds
    \/ RestoreUpdateProject

----------------------------------------------------------------------------
(* NeonService.createProject *)

\* CreateProjectResponse: project.id, id, connection_uris[0].connection_uri and the
\* ids of the operations
CreateResponse(projectId, id, connectionUri, operations) ==
    [project |-> [id |-> projectId], id |-> id, connection_uri |-> connectionUri,
     operations |-> operations]

CreateResponses ==
    {CreateResponse("np1", Undefined, "url1", <<"op1", "op2">>),
     CreateResponse("np1", Undefined, "url1", <<"op1">>),
     CreateResponse(Undefined, "np1", "url1", <<>>),
     CreateResponse(Undefined, Undefined, "url1", <<"op1">>),
     CreateResponse("np1", Undefined, Undefined, <<"op1">>)}

\* json.project?.id ?? json.id
NeonProjectIdOf(json) == IF json.project.id # Undefined THEN json.project.id ELSE json.id

NoCreateResult == [neonProjectId |-> Undefined, databaseUrl |-> Undefined]
NoCreateCall == [pc |-> "idle", error |-> "none", operations |-> <<>>,
                 result |-> NoCreateResult]

\* await this.waitForOperationsToSettle(neonProjectId, opIds): the call goes on
\* once the wait has resolved or rejected
AwaitEndedAlways(manyPc) == TRUE
AwaitEnded(manyPc) == manyPc \in {"resolved", "rejected"}

\* POST /projects, the two invariants on the response, and the start of the wait
CreateProjectPost ==
    /\ create.pc = "idle"
    /\ \E ok \in BOOLEAN, json \in CreateResponses :
         LET opIds == WaitedOperationIds(json.operations)
             result == [neonProjectId |-> NeonProjectIdOf(json),
                        databaseUrl |-> json.connection_uri]
         IN  IF ~ok
             THEN /\ create' = [create EXCEPT !.pc = "threw", !.error = "http"]
                  /\ UNCHANGED many
             ELSE IF NeonProjectIdOf(json) = Undefined
             THEN /\ create' = [create EXCEPT !.pc = "threw", !.error = "noid"]
                  /\ UNCHANGED many
             ELSE IF json.connection_uri = Undefined
             THEN /\ create' = [create EXCEPT !.pc = "threw", !.error = "nourl"]
                  /\ UNCHANGED many
             ELSE IF NeedsWait(opIds)
             THEN /\ create' = [create EXCEPT !.pc = "waiting",
                                              !.operations = json.operations,
                                              !.result = result]
                  /\ many' = BeginWaits(many, opIds, DefaultWaitOptions.pollIntervalMs,
                                        DefaultWaitOptions.timeoutMs)
             ELSE /\ create' = [create EXCEPT !.pc = "returned",
                                              !.operations = json.operations,
                                              !.result = result]
                  /\ UNCHANGED many
    /\ UNCHANGED <<storeVars, worldVars, init, ckpt, del, restore, agent, poll, branch, snap,
                   apply, auth, moreVars>>

\* return { neonProjectId, databaseUrl } after the wait, or the wait's error
CreateProjectSettles ==
    /\ create.pc = "waiting"
    /\ AwaitEnded(many.pc)
    /\ create' = IF many.pc = "rejected"
                 THEN [create EXCEPT !.pc = "threw", !.error = "wait",
                                     !.result = NoCreateResult]
                 ELSE [create EXCEPT !.pc = "returned"]
    /\ UNCHANGED <<storeVars, worldVars, init, ckpt, del, restore, agent, poll, many, branch,
                   snap, apply, auth, moreVars>>

CreateProject ==
    \/ CreateProjectPost
    \/ ManyFetch
    \/ ManyWake
    \/ ManyTick
    \/ ManyRemoteStep
    \/ CreateProjectSettles

----------------------------------------------------------------------------
(* NeonService.listAuthDomains and addAuthDomain *)

\* the calls made one after the other on one project
AuthCalls == 1..2

Domains == {"d1", "d2"}
\* authProvider = "stack" unless the caller passes another
AuthProviders == {"stack", "other"}

\* AuthDomain
AuthDomain(domain, authProvider) == [domain |-> domain, auth_provider |-> authProvider]

\* existingDomains.some((d) => d.domain === domain && d.auth_provider === authProvider)
DomainExists(existingDomains, domain, authProvider) ==
    \E d \in existingDomains : d.domain = domain /\ d.auth_provider = authProvider

\* the call goes on to the POST unless the listing succeeded and held the pair; a
\* listing that throws (request refused, or a body without "domains") is caught
ProceedsToAddAlways(listed, domainExists) == TRUE
ProceedsToAddIfListed(listed, domainExists) == listed = "ok" /\ ~domainExists
ProceedsToAdd(listed, domainExists) == ~(listed = "ok" /\ domainExists)

NoAuthCall == [pc |-> "idle", domain |-> Undefined, authProvider |-> Undefined,
               listed |-> "none", domainExists |-> FALSE, adds |-> 0,
               posted |-> "none", after |-> {}]

AuthCallEnded(c) == auth.calls[c].pc \in {"returned", "threw"}

\* addAuthDomain(neonProjectId, domain, authProvider)
StartAddAuthDomain ==
    /\ \E c \in AuthCalls, domain \in Domains, authProvider \in AuthProviders :
         /\ auth.calls[c].pc = "idle"
         /\ c > 1 => AuthCallEnded(c - 1)
         /\ auth' = [auth EXCEPT !.calls[c] = [@ EXCEPT !.pc = "listing",
                                                       !.domain = domain,
                                                       !.authProvider = authProvider]]
    /\ UNCHANGED <<storeVars, worldVars, init, ckpt, del, restore, agent, poll, many, branch,
                   snap, apply, create, moreVars>>

\* try { existingDomains = await this.listAuthDomains(...); if (domainExists) return }
\* catch { proceed }
AuthListDomains ==
    /\ \E c \in AuthCalls, listed \in {"ok", "refused", "nodomains"} :
         /\ auth.calls[c].pc = "listing"
         /\ LET domainExists == /\ listed = "ok"
                                /\ DomainExists(auth.domains, auth.calls[c].domain,
                                                auth.calls[c].authProvider)
            IN  auth' = [auth EXCEPT !.calls[c] =
                    [@ EXCEPT !.listed = listed, !.domainExists = domainExists,
                              !.after = auth.domains,
                              !.pc = IF ProceedsToAdd(listed, domainExists)
                                     THEN "posting" ELSE "returned"]]
    /\ UNCHANGED <<storeVars, worldVars, init, ckpt, del, restore, agent, poll, many, branch,
                   snap, apply, create, moreVars>>

\* POST .../auth/domains: the control-plane adds the pair, or refuses (a pair it
\* already holds gives a duplicate-entry error) and the call throws
AuthPostDomain ==
    /\ \E c \in AuthCalls, ok \in BOOLEAN :
         LET pair == AuthDomain(auth.calls[c].domain, auth.calls[c].authProvider)
             accepted == ok /\ pair \notin auth.domains
             domains == IF accepted THEN auth.domains \cup {pair} ELSE auth.domains
         IN  /\ auth.calls[c].pc = "posting"
             /\ auth' = [auth EXCEPT
                    !.domains = domains,
                    !.calls[c] = [@ EXCEPT !.adds = @ + 1, !.after = domains,
                                           !.posted = IF accepted THEN "accepted"
                                                      ELSE "refused",
                                           !.pc = IF accepted THEN "returned"
                                                  ELSE "threw"]]
    /\ UNCHANGED <<storeVars, worldVars, init, ckpt, del, restore, agent, poll, many, branch,
                   snap, apply, create, moreVars>>

AddAuthDomain ==
    \/ StartAddAuthDomain
    \/ AuthListDomains
    \/ AuthPostDomain

----------------------------------------------------------------------------
(* A persistence step the host invokes again: the process stopped after the step's
   statement took effect and before its completion was recorded, so the step
   function runs a second time with the same arguments *)

\* createInitialVersion(project.id, hash, snapshotId), run twice: each insert gets
\* an id of its own, and the workflow goes on with the row the second run returned
InitAgainRunId == AgentRunId + 1

InitCreateInitialVersionAgain ==
    /\ init.pc = "fan1"
    /\ AllReturned(init.done, InitFanOut1)
    /\ init.status = "running"
    /\ CanInsertVersion(projects, init.project)
    /\ versions' = InsertVersion(
                       InsertVersion(versions,
                           InitialVersionValues(InitRunId, init.project,
                                                init.commitHash, init.snapshotId)),
                       InitialVersionValues(InitAgainRunId, init.project,
                                            init.commitHash, init.snapshotId))
    /\ init' = [init EXCEPT !.pc = "fan2", !.done = {}, !.versionId = InitAgainRunId]
    /\ UNCHANGED <<projects, secrets, worldVars, ckpt, del, restore, agent, poll, neonVars>>

\* saveProjectSecrets(initialVersion.id, secrets), run twice
InitSaveProjectSecretsAgain ==
    /\ init.pc = "fan2"
    /\ "saveProjectSecrets" \notin init.done
    /\ CanInsertSecret(versions, init.versionId)
    /\ secrets' = InsertSecret(InsertSecret(secrets, init.versionId, InitialEnv),
                               init.versionId, InitialEnv)
    /\ init' = [init EXCEPT !.done = @ \cup {"saveProjectSecrets"}]
    /\ UNCHANGED <<projects, versions, worldVars, ckpt, del, restore,
                   agent, poll, neonVars>>

\* setCurrentDevVersion(project.id, initialVersion.id), run twice
InitSetCurrentDevVersionAgain ==
    /\ init.pc = "fan2"
    /\ "setCurrentDevVersion" \notin init.done
    /\ projects' = UpdatePointer(UpdatePointer(projects, init.project, init.versionId),
                                 init.project, init.versionId)
    /\ init' = [init EXCEPT !.done = @ \cup {"setCurrentDevVersion"}]
    /\ UNCHANGED <<versions, secrets, worldVars, ckpt, del, restore,
                   agent, poll, neonVars>>

\* copyProjectSecrets(currentDevVersionId, checkpointVersion.id), run twice
CkptCopyProjectSecretsAgain(i) ==
    /\ ckpt[i].pc = "fan2"
    /\ "copyProjectSecrets" \notin ckpt[i].done
    /\ ~CopyThrows(secrets, versions, CopySource(ckpt[i], projects), ckpt[i].versionId)
    /\ secrets' = CopySecrets(CopySecrets(secrets, CopySource(ckpt[i], projects),
                                          ckpt[i].versionId),
                              CopySource(ckpt[i], projects), ckpt[i].versionId)
    /\ ckpt' = [ckpt EXCEPT ![i] = [@ EXCEPT
                  !.done = @ \cup {"copyProjectSecrets"},
                  !.copied = IF SecretsOfVersion(secrets,
                                   CopySource(ckpt[i], projects)) = {}
                             THEN "skipped" ELSE "copied"]]
    /\ UNCHANGED <<projects, versions, worldVars, init, del, restore,
                   agent, poll, neonVars>>

\* clearCurrentDevVersion(project.id), run twice
DelClearCurrentDevVersionAgain ==
    /\ del.pc = "clearCurrentDevVersion"
    /\ projects' = UpdatePointer(UpdatePointer(projects, del.project, NULL),
                                 del.project, NULL)
    /\ del' = [del EXCEPT !.pc = StepAfterClear(del.versionIds)]
    /\ UNCHANGED <<versions, secrets, worldVars, init, ckpt, restore,
                   agent, poll, neonVars>>

\* deleteProjectSecrets(versionIds), run twice
DelDeleteProjectSecretsAgain ==
    /\ del.pc = "deleteProjectSecrets"
    /\ secrets' = DeleteSecretsIn(DeleteSecretsIn(secrets, del.versionIds),
                                  del.versionIds)
    /\ del' = [del EXCEPT !.pc = "deleteProjectVersions"]
    /\ UNCHANGED <<projects, versions, worldVars, init, ckpt, restore,
                   agent, poll, neonVars>>

\* deleteProjectVersions(project.id), run twice: the second statement finds no row
\* of the project and no foreign key to object
DelDeleteProjectVersionsAgain ==
    /\ del.pc = "deleteProjectVersions"
    /\ CanDeleteVersions(versions, secrets, del.project)
    /\ CanDeleteVersions(DeleteVersions(versions, del.project), secrets, del.project)
    /\ versions' = DeleteVersions(DeleteVersions(versions, del.project), del.project)
    /\ del' = [del EXCEPT !.pc = "deleteProjectRecord"]
    /\ UNCHANGED <<projects, secrets, worldVars, init, ckpt, restore,
                   agent, poll, neonVars>>

\* deleteProjectRecord(project.id), run twice: the second delete matches no row
DeleteProject(ps, projectId) ==
    [ps EXCEPT ![projectId] = [exists |-> FALSE, currentDevVersionId |-> NULL]]

DelDeleteProjectRecordAgain ==
    /\ del.pc = "deleteProjectRecord"
    /\ CanDeleteProject(versions, del.project)
    /\ projects' = DeleteProject(DeleteProject(projects, del.project), del.project)
    /\ del' = [del EXCEPT !.pc = "teardown"]
    /\ UNCHANGED <<versions, secrets, worldVars, init, ckpt, restore,
                   agent, poll, neonVars>>

StepInvokedAgain ==
    \/ InitCreateInitialVersionAgain
    \/ InitSaveProjectSecretsAgain
    \/ InitSetCurrentDevVersionAgain
    \/ \E i \in Checkpoints : CkptCopyProjectSecretsAgain(i)
    \/ DelClearCurrentDevVersionAgain
    \/ DelDeleteProjectSecretsAgain
    \/ DelDeleteProjectVersionsAgain
    \/ DelDeleteProjectRecordAgain

----------------------------------------------------------------------------
(* The JSON text a stored secrets bundle may hold *)

JsonKeys == {"A", "B", "1"}
JsonValues == {"x", "y"}

\* the texts of up to MaxMembers members, a key possibly written twice
RECURSIVE JsonTextsOf(_)
JsonTextsOf(n) ==
    IF n = 0 THEN {<<>>}
    ELSE JsonTextsOf(n - 1) \cup
         {text \o <<k, v>> : text \in {t \in JsonTextsOf(n - 1) : Len(t) = 2 * (n - 1)},
                             k \in JsonKeys, v \in JsonValues}
JsonTexts == JsonTextsOf(MaxMembers)

\* the bundle of the initial version holds another text than saveProjectSecrets
\* wrote (a row written by an earlier release or by an operator), before any
\* checkpoint copies it
StoredBundleDiffers ==
    /\ \A i \in Checkpoints : ckpt[i].pc = "idle"
    /\ \E row \in SecretsOfVersion(secrets, InitRunId), text \in JsonTexts :
         /\ decrypt(row.secrets) = InitialEnv
         /\ secrets' = (secrets \ {row}) \cup
                           {[row EXCEPT !.secrets = encrypt(text, row.secrets.iv)]}
    /\ UNCHANGED <<projects, versions, worldVars, init, ckpt, del, restore, agent, poll,
                   neonVars>>

----------------------------------------------------------------------------
(* The backend columns of the project row the workflows are started with *)

NoRunInFlight ==
    /\ init.pc \in {"start", "end"}
    /\ \A i \in Checkpoints : ckpt[i].pc \in {"idle", "end"}
    /\ del.pc \in {"idle", "end"}

\* the row of p1 carries other backend columns than POST /projects writes; every
\* run is started with the row as it is read then
ProjectRowDiffers ==
    /\ NoRunInFlight
    /\ \E columns \in BackendConfigs \ {cfg} : cfg' = columns
    /\ UNCHANGED <<storeVars, worldVars, init, ckpt, del, restore, agent, poll, many, branch,
                   snap, apply, create, auth, warm>>

----------------------------------------------------------------------------
(* Initial state and specifications *)

\* p1 has just been inserted by POST /projects and its initialisation started;
\* p2 is another user's project holding an initial version and one checkpoint
Init ==
    /\ projects = [p \in ProjectIds |->
                     [exists |-> TRUE,
                      currentDevVersionId |-> IF p = "p2" THEN 2 ELSE NULL]]
    /\ versions = {InitialVersionValues(1, "p2", 1, 1),
                   CheckpointVersionValues(2, "p2", 2, 2, NoMessage)}
    /\ secrets = InsertSecret(InsertSecret({}, 1, InitialEnv), 2, InitialEnv)
    /\ gitHead = [p \in ProjectIds |-> IF p = "p2" THEN 2 ELSE 3]
    /\ appliedSnapshot = [p \in ProjectIds |-> NULL]
    /\ init = [project |-> "p1", pc |-> "start", status |-> "running", done |-> {},
               commitHash |-> NULL, snapshotId |-> NULL, versionId |-> NULL,
               error |-> "none"]
    /\ ckpt = [i \in Checkpoints |->
                 [project |-> "p1", pc |-> "idle", status |-> "idle", error |-> "none",
                  done |-> {}, currentDevVersionId |-> NULL,
                  assistantMessageId |-> NoMessage, commitHash |-> NULL,
                  snapshotId |-> NULL, versionId |-> NULL, copied |-> "pending"]]
    /\ del = [project |-> "p1", pc |-> "idle", status |-> "idle", versionIds |-> {},
              done |-> {}, error |-> "none"]
    /\ restore = [pc |-> 0, status |-> "idle", projectId |-> "p1", versionId |-> NULL,
                  before |-> NULL, version |-> NoVersion, reset |-> FALSE,
                  applied |-> "no", wrote |-> FALSE]
    /\ agent = [project |-> "p1", pc |-> "idle", status |-> "idle", commitHash |-> NULL,
                snapshotId |-> NULL, versionId |-> NULL]
    /\ poll = [pc |-> "idle", remote |-> "scheduling", status |-> "none",
               first |-> "none", polls |-> 0, sleeps |-> 0, now |-> 0, startedAt |-> 0,
               pollIntervalMs |-> 1, timeoutMs |-> 2, result |-> "none",
               remoteAt |-> 0]
    /\ many = [pc |-> "idle", operationIds |-> <<>>, waits |-> <<>>,
               remote |-> [id \in OperationIds |-> "scheduling"], now |-> 0,
               startedAt |-> 0, pollIntervalMs |-> 1, timeoutMs |-> 2,
               entries |-> NoEntries]
    /\ branch = [remote |-> [shape |-> "branches",
                             list |-> <<Container("b1", "main", Undefined, Undefined)>>],
                 prev |-> NoCall, last |-> NoCall, changed |-> FALSE]
    /\ snap = [calls |-> [i \in Checkpoints |-> NoSnapshotCall], created |-> {}]
    /\ apply = NoApplyCall
    /\ cfg = BackendColumns("neon", "np1")
    /\ warm = NoDevServerRequest
    /\ create = NoCreateCall
    /\ auth = [domains |-> {}, calls |-> [c \in AuthCalls |-> NoAuthCall]]

\* every workflow, the agent tool and the restore handler, interleaved
Next ==
    \/ InitWorkflow
    \/ CheckpointWorkflow
    \/ DeleteWorkflow
    \/ AgentTool
    \/ RestoreHandler

Spec == Init /\ [][Next]_vars

\* the initialisation of a project while restore requests arrive
NextInitialize ==
    \/ InitWorkflow
    \/ RestoreHandler

SpecInitialize == Init /\ [][NextInitialize]_vars

\* restore requests, one after the other, on an otherwise quiet store
NextRestore ==
    \/ RestoreHandler
    \/ RestoreAgain

SpecRestore == Init /\ [][NextRestore]_vars

\* the initialisation of a project and the checkpoints requested on it
NextCheckpoint ==
    \/ InitWorkflow
    \/ CheckpointWorkflow

SpecCheckpoint == Init /\ [][NextCheckpoint]_vars

\* one wait for an operation; the event loop runs every fetch and timer that is due
SpecPoll == Init /\ [][Poller]_vars /\ WF_vars(PollFetch) /\ WF_vars(PollWake)

\* one waitForOperationsToSettle call over operations that move on their own
SpecMany == Init /\ [][WaitForMany]_vars

\* getProductionBranch called again and again while the branches change
SpecBranches == Init /\ [][Branches]_vars

\* checkpoints of an initialised project whose branches may be deleted meanwhile
NextSnapshot ==
    \/ InitWorkflow
    \/ CheckpointWithSnapshot
    \/ BranchDeleted

SpecSnapshot == Init /\ [][NextSnapshot]_vars

\* one restore request whose applySnapshot call waits for the operations of the
\* restore
SpecApply == Init /\ [][RestoreWithApplySnapshot]_vars

\* the initialisation and the checkpoints of a project whose first bundle may hold
\* any JSON text
NextSecrets ==
    \/ InitWorkflow
    \/ CheckpointWorkflow
    \/ StoredBundleDiffers

SpecSecrets == Init /\ [][NextSecrets]_vars

\* deleteProject requested while the project is being initialised, or after
NextDelete ==
    \/ InitWorkflow
    \/ DeleteWorkflow

SpecDelete == Init /\ [][NextDelete]_vars

\* the agent's commit-and-push next to the initialisation and a checkpoint
NextAgent ==
    \/ InitWorkflow
    \/ CheckpointWorkflow
    \/ AgentTool

SpecAgent == Init /\ [][NextAgent]_vars

\* the workflows on a host that may invoke a persistence step twice
NextRetry ==
    \/ InitWorkflow
    \/ CheckpointWorkflow
    \/ DeleteWorkflow
    \/ StepInvokedAgain

SpecRetry == Init /\ [][NextRetry]_vars

\* the initialisation, the dev-server request it leaves behind, and a deleteProject
\* requested meanwhile
NextWarmUp ==
    \/ InitWorkflow
    \/ WarmUpSettles
    \/ DeleteWorkflow

SpecWarmUp == Init /\ [][NextWarmUp]_vars

\* the three workflows on a project whose row may carry any backend columns
NextConfigured ==
    \/ ProjectRowDiffers
    \/ InitWorkflow
    \/ CheckpointWorkflow
    \/ DeleteWorkflow

SpecConfigured == Init /\ [][NextConfigured]_vars

\* one createProject call and the operations of the new project
SpecCreate == Init /\ [][CreateProject]_vars

\* addAuthDomain calls one after the other on the project's trusted domains
SpecAuth == Init /\ [][AddAuthDomain]_vars

----------------------------------------------------------------------------
(* Claims *)

Pointer(p) == projects[p].currentDevVersionId

\* C1: in every reachable state, under any interleaving of the workflows, the agent
\* checkpoint, restore and deleteProject, the currentDevVersionId of a project is
\* null or the id of an existing version row whose projectId is that project.
C1_PointerReferencesOwnVersion ==
    \A p \in ProjectIds :
        (projects[p].exists /\ Pointer(p) # NULL) =>
            \E v \in versions : v.id = Pointer(p) /\ v.projectId = p

RestoreFails ==
    /\ restore.status = "running"
    /\ restore'.status \in {"error", "notfound"}

PointerBeforeRestore ==
    IF RestoreAt("selectProject") THEN Pointer(restore.projectId) ELSE restore.before

C3_FailedRestoreKeepsPointer ==
    [][RestoreFails =>
         projects'[restore.projectId].currentDevVersionId = PointerBeforeRestore]_vars

\* a restore of an older version failed after the git reset and after the snapshot
\* application was requested, and the pointer still names the newer version
C3_Witness ==
    /\ restore.status = "error"
    /\ restore.reset
    /\ restore.applied = "requested"
    /\ ~restore.wrote
    /\ restore.projectId = "p2"
    /\ Pointer("p2") = 2
    /\ appliedSnapshot["p2"] = 1

\* C4: in every restore the git reset to the version's commit has completed before
\* the snapshot application is requested, and the pointer is written only after the
\* snapshot application has completed.
C4_RestoreOrdering ==
    /\ (restore.applied # "no" => restore.reset)
    /\ (restore.wrote => restore.applied = "completed" /\ restore.reset)

C4_Witness ==
    /\ restore.status = "ok"
    /\ restore.wrote
    /\ restore.projectId = "p2"
    /\ Pointer("p2") = 1
    /\ gitHead["p2"] = 1
    /\ appliedSnapshot["p2"] = 1

\* C5: a version row, once inserted, stays exactly as it is in every later state
\* (its gitCommitHash and neonSnapshotId never change), and a row disappears only in
\* deleteProject's deleteProjectVersions step for the row's own project.
RemovedByDeleteProject(v) ==
    /\ \A w \in versions' : w.id # v.id
    /\ del.pc = "deleteProjectVersions"
    /\ del'.pc = "deleteProjectRecord"
    /\ v.projectId = del.project

C5_VersionsWriteOnce ==
    [][\A v \in versions : v \in versions' \/ RemovedByDeleteProject(v)]_vars

\* the project holds the initial version and a checkpoint made after it
C5_Witness ==
    /\ Cardinality(VersionsOfProject(versions, "p1")) >= 2
    /\ \E i \in Checkpoints : ckpt[i].status = "success"

\* the step at which a version-creating operation reports success
InitCompletes == init.status = "running" /\ init'.status = "success"
CkptCompletes(i) == ckpt[i].status = "running" /\ ckpt'[i].status = "success"
AgentCompletes == agent.status = "running" /\ agent'.status = "success"

\* the secrets rows the version has once the step is taken
BundlesAfter(versionId) == Cardinality(SecretsOfVersion(secrets', versionId))

NoDeleteBegun == del.status = "idle"

CkptSetsPointer(i) ==
    /\ "setCurrentDevVersion" \notin ckpt[i].done
    /\ "setCurrentDevVersion" \in ckpt'[i].done
InitSetsPointer ==
    /\ "setCurrentDevVersion" \notin init.done
    /\ "setCurrentDevVersion" \in init'.done

BothCheckpointsSucceeded == \A i \in Checkpoints : ckpt[i].status = "success"

\* C7: two createManualCheckpoint runs interleaved in any way on one project never
\* fail because of each other, each inserts a version row of its own, every
\* setCurrentDevVersion writes its run's version id whatever the pointer held, and
\* nothing else moves the pointer, so that once both have succeeded the pointer is
\* the version of the run whose setCurrentDevVersion executed last.
C7_LastWriteWins ==
    /\ [](\A i \in Checkpoints : ckpt[i].error # "constraint")
    /\ [](BothCheckpointsSucceeded =>
            /\ ckpt[1].versionId # ckpt[2].versionId
            /\ \A i \in Checkpoints :
                 \E v \in VersionsOfProject(versions, ckpt[i].project) :
                     v.id = ckpt[i].versionId
            /\ Pointer(ckpt[1].project) \in {ckpt[1].versionId, ckpt[2].versionId})
    /\ [][\A i \in Checkpoints :
            CkptSetsPointer(i) =>
                projects'[ckpt[i].project].currentDevVersionId = ckpt[i].versionId]_vars
    /\ [][\A p \in ProjectIds :
            projects'[p].currentDevVersionId # Pointer(p) =>
                \/ InitSetsPointer /\ init.project = p
                \/ \E i \in Checkpoints : CkptSetsPointer(i) /\ ckpt[i].project = p]_vars

\* both runs started from the same current version, both succeeded with a row of
\* their own, and the pointer is the first run's version
C7_Witness ==
    /\ BothCheckpointsSucceeded
    /\ ckpt[1].project = ckpt[2].project
    /\ ckpt[1].currentDevVersionId = ckpt[2].currentDevVersionId
    /\ ckpt[1].versionId # ckpt[2].versionId
    /\ Pointer(ckpt[1].project) = ckpt[1].versionId
    /\ {ckpt[1].versionId, ckpt[2].versionId} \subseteq VersionIdsOf(versions)

Settled == {"finished", "skipped", "cancelled", "failed"}
NonTerminal == {"scheduling", "running", "cancelling"}

\* C8: as soon as a poll of waitForOperationToSettle observes finished, skipped,
\* cancelled or failed, the call stops polling and returns that status as its value.
C8_ReturnsEverySettledStatus ==
    (poll.polls > 0 /\ poll.status \in Settled) =>
        (poll.pc = "returned" /\ poll.result = poll.status)

\* what the code does return on the poll that observes it
C8_ReturnsCodeTerminalStatus ==
    (poll.polls > 0 /\ isTerminalOperationStatus(poll.status)) =>
        (poll.pc = "returned" /\ poll.result = poll.status)

\* C9: when the first status fetched is finished, the call returns finished after
\* exactly one poll and without entering the sleep between polls.
C9_FinishedOnFirstPoll ==
    poll.first = "finished" =>
        /\ poll.pc = "returned"
        /\ poll.result = "finished"
        /\ poll.polls = 1
        /\ poll.sleeps = 0

C9_Witness ==
    /\ poll.first = "finished"
    /\ poll.pc = "returned"
    /\ poll.polls = 1

\* the time the call has been waiting, on the poller's clock
Elapsed == poll.now - poll.startedAt

\* the operation was still non-terminal more than timeoutMs after the call began
\* and has reached a terminal status since
SettledAfterTimeout ==
    /\ isTerminalOperationStatus(poll.remote)
    /\ poll.remoteAt - poll.startedAt > poll.timeoutMs

C11_ResolvesWhenAllSettled ==
    many.pc = "resolved" =>
        /\ \A i \in DOMAIN many.waits :
             /\ many.waits[i].pc = "returned"
             /\ isTerminalOperationStatus(many.waits[i].result)
        /\ DOMAIN many.entries = Range(many.operationIds)
        /\ \A i \in DOMAIN many.waits :
             /\ many.waits[i].operationId = many.operationIds[i]
             /\ many.entries[many.operationIds[i]] = many.waits[i].result
             /\ many.entries[many.operationIds[i]] = many.remote[many.operationIds[i]]

\* two operations settled differently and at different times, and the call resolved
C11_Witness ==
    /\ many.pc = "resolved"
    /\ many.operationIds = <<"op1", "op2">>
    /\ many.entries["op1"] = "skipped"
    /\ many.entries["op2"] = "finished"
    /\ many.waits[1].endedAt < many.waits[2].endedAt

\* C12: when one wait of waitForOperationsToSettle fails, the other waits are not
\* cancelled: a wait stops polling only by returning the terminal status it
\* observed, by its own timeout or by its own fetch error, also after the call
\* has rejected.
WaitEndsOnItsOwn(i) ==
    \/ /\ many'.waits[i].pc = "returned"
       /\ isTerminalOperationStatus(many'.waits[i].result)
       /\ many'.waits[i].result = many.remote[many.waits[i].operationId]
    \/ /\ many'.waits[i].pc = "timedout"
       /\ TimedOut(many.now, many.startedAt, many.timeoutMs)
       /\ ~isTerminalOperationStatus(many.remote[many.waits[i].operationId])
    \/ /\ many'.waits[i].pc = "threw"
       /\ many.waits[i].pc = "fetching"

C12_SiblingsKeepPolling ==
    [][\A i \in DOMAIN many.waits :
         (WaitPolling(many.waits[i]) /\ i \in DOMAIN many'.waits) =>
             \/ WaitPolling(many'.waits[i])
             \/ /\ WaitEndsOnItsOwn(i)
                /\ \A j \in DOMAIN many.waits \ {i} : many'.waits[j] = many.waits[j]]_vars

\* the first wait threw, the call rejected, and the second wait went on to return
\* the status its operation reached later
C12_Witness ==
    /\ many.pc = "rejected"
    /\ many.operationIds = <<"op1", "op2">>
    /\ many.waits[1].pc = "threw"
    /\ many.waits[2].pc = "returned"
    /\ many.waits[2].result = "finished"
    /\ many.waits[1].endedAt < many.waits[2].endedAt

\* the branch list getProductionBranch works on, and the names in it
CurrentBranches == getAllBranches(branch.remote)
HasBranchNamed(name) ==
    \E i \in 1..Len(CurrentBranches) : CurrentBranches[i].name = name

\* C13: for every branch list, getProductionBranch returns a branch of the list
\* named "main" if the list has one, otherwise a branch of the list named
\* "production" if it has one, otherwise no branch; never a branch of another name.
C13_MainThenProduction ==
    LET found == ProductionBranchOf(CurrentBranches)
    IN  /\ found = NoBranch \/ found \in Range(CurrentBranches)
        /\ HasBranchNamed("main") => found.name = "main"
        /\ (~HasBranchNamed("main") /\ HasBranchNamed("production")) =>
               found.name = "production"
        /\ (~HasBranchNamed("main") /\ ~HasBranchNamed("production")) =>
               found = NoBranch
        /\ found # NoBranch => found.name \in {"main", "production"}
        /\ (~branch.changed /\ branch.last \notin {NoCall, Threw}) => branch.last = found

\* a call returned production from a list that holds a development branch before it
C13_Witness ==
    /\ ~branch.changed
    /\ branch.last.id = "b2"
    /\ branch.last.name = "production"
    /\ Len(CurrentBranches) = 2
    /\ CurrentBranches[1].name = "dev"

\* a getProductionBranch call returns a branch (or none) rather than throwing
BranchCallReturns ==
    /\ branch'.remote = branch.remote
    /\ ~branch'.changed
    /\ branch'.prev = branch.last
    /\ branch'.last # Threw

C15_NoBranchNoSnapshot ==
    \A i \in Checkpoints :
        /\ snap.calls[i].error = "nobranch" =>
               /\ snap.calls[i].pc = "threw"
               /\ snap.calls[i].requests = 0
               /\ CkptRunId(i) \notin snap.created
               /\ CkptRunId(i) \notin VersionIdsOf(versions)
               /\ ckpt[i].status # "success"
               /\ ckpt[i].versionId = NULL
        /\ (snap.calls[i].requests > 0 \/ CkptRunId(i) \in snap.created
              \/ CkptRunId(i) \in VersionIdsOf(versions)) =>
               snap.calls[i].branchId # Undefined

\* the first checkpoint succeeded while the project had its main branch; the branch
\* was deleted and the second checkpoint failed without a snapshot request
C15_Witness ==
    /\ ckpt[1].status = "success"
    /\ CkptRunId(1) \in snap.created
    /\ branch.remote.list = <<>>
    /\ snap.calls[2].error = "nobranch"
    /\ snap.calls[2].requests = 0
    /\ ckpt[2].status = "failed"
    /\ ckpt[2].error = "external"


\* C16: applySnapshot returns normally only after every operation id of the restore
\* response has been waited on and that wait has returned; none of those operations
\* is scheduling, running or cancelling once the call has returned
WaitedAndSettled(operationId) ==
    /\ many.remote[operationId] \notin {"scheduling", "running", "cancelling"}
    /\ \E i \in DOMAIN many.waits :
         /\ many.waits[i].operationId = operationId
         /\ many.waits[i].pc = "returned"
         /\ many.waits[i].result = many.remote[operationId]

C16_ReturnsAfterOperationsSettle ==
    apply.pc = "returned" =>
        \A k \in DOMAIN apply.operations :
            IsOperationId(apply.operations[k]) => WaitedAndSettled(apply.operations[k])

C16_Witness ==
    /\ apply.pc = "returned"
    /\ apply.operations = <<Undefined, "op1", "op2">>
    /\ many.remote["op1"] = "finished"
    /\ many.remote["op2"] = "skipped"
    /\ many.pc = "resolved"
    /\ restore.applied = "completed"

\* C17: a restore response without operation ids makes applySnapshot return without
\* an error and without a single operation-status poll
C17_NoOperationsNoPoll ==
    (apply.pc # "idle" /\ apply.error # "http" /\ apply.operationIds = <<>>) =>
        /\ apply.pc = "returned"
        /\ apply.error = "none"
        /\ many.pc = "idle"
        /\ many.waits = <<>>

C17_Witness ==
    /\ apply.pc = "returned"
    /\ apply.operations = <<"", Undefined>>
    /\ apply.operationIds = <<>>
    /\ many.pc = "idle"
    /\ restore.status = "ok"
    /\ restore.wrote

\* C18: when an operation of the restore settles as failed or cancelled, or its wait
\* times out, applySnapshot does not return normally and the restore request does
\* not set the project's pointer
WaitEndedBadly(w) ==
    \/ w.pc = "timedout"
    \/ w.pc = "returned" /\ w.result \in {"failed", "cancelled"}

C18_BadOperationFailsRestore ==
    (\E i \in DOMAIN many.waits : WaitEndedBadly(many.waits[i])) =>
        /\ apply.pc # "returned"
        /\ ~restore.wrote


\* C19: createProject returns the project id and the database URL only after every
\* operation id of the create response has been waited on and has settled
C19_CreateReturnsAfterOperationsSettle ==
    create.pc = "returned" =>
        /\ create.result.neonProjectId # Undefined
        /\ create.result.databaseUrl # Undefined
        /\ \A k \in DOMAIN create.operations :
               IsOperationId(create.operations[k]) =>
                   WaitedAndSettled(create.operations[k])

C19_Witness ==
    /\ create.pc = "returned"
    /\ create.result = [neonProjectId |-> "np1", databaseUrl |-> "url1"]
    /\ create.operations = <<"op1", "op2">>
    /\ many.remote["op1"] = "finished"
    /\ many.remote["op2"] = "finished"
    /\ many.now > 0


\* C20: addAuthDomain issues no add request when the listing it obtained contains
\* the identical (domain, provider) pair; and of two calls in sequence with the same
\* pair, where the first returned normally and the second obtained the listing, the
\* second issues no add request and leaves the allow-list as the first left it, so
\* that the two calls issue at most one add request
SamePair(c, d) ==
    /\ auth.calls[c].domain = auth.calls[d].domain
    /\ auth.calls[c].authProvider = auth.calls[d].authProvider

C20_NoAddWhenListed ==
    /\ \A c \in AuthCalls :
           (auth.calls[c].listed = "ok" /\ auth.calls[c].domainExists) =>
               /\ auth.calls[c].pc = "returned"
               /\ auth.calls[c].adds = 0
    /\ (/\ auth.calls[1].pc = "returned"
        /\ AuthCallEnded(2)
        /\ SamePair(1, 2)
        /\ auth.calls[2].listed = "ok") =>
           /\ auth.calls[2].pc = "returned"
           /\ auth.calls[2].adds = 0
           /\ auth.calls[1].adds + auth.calls[2].adds <= 1
           /\ auth.calls[2].after = auth.calls[1].after
           /\ auth.domains = auth.calls[1].after

C20_Witness ==
    /\ auth.calls[1].pc = "returned"
    /\ auth.calls[1].adds = 1
    /\ auth.calls[2].pc = "returned"
    /\ SamePair(1, 2)
    /\ auth.calls[2].listed = "ok"
    /\ auth.calls[2].domainExists
    /\ auth.calls[2].adds = 0
    /\ auth.domains = {AuthDomain("d1", "stack")}

\* C20 as stated: any two calls in sequence with the same pair issue at most one add
\* request and leave the allow-list as after the first call
C20_TwoCallsOneAdd ==
    /\ \A c \in AuthCalls :
           (auth.calls[c].listed = "ok" /\ auth.calls[c].domainExists) =>
               auth.calls[c].adds = 0
    /\ (AuthCallEnded(1) /\ AuthCallEnded(2) /\ SamePair(1, 2)) =>
           /\ auth.calls[1].adds + auth.calls[2].adds <= 1
           /\ auth.calls[2].after = auth.calls[1].after


\* C21: when the listing inside addAuthDomain fails, the failure is not propagated:
\* the call goes on to the add request, issues exactly one, and returns or throws
\* as that request was accepted or refused
ListingFailed(c) == auth.calls[c].listed \in {"refused", "nodomains"}

C21_ListingFailureNotPropagated ==
    \A c \in AuthCalls :
        ListingFailed(c) =>
            \/ /\ auth.calls[c].pc = "posting"
               /\ auth.calls[c].adds = 0
            \/ /\ auth.calls[c].pc = "returned"
               /\ auth.calls[c].adds = 1
               /\ auth.calls[c].posted = "accepted"
            \/ /\ auth.calls[c].pc = "threw"
               /\ auth.calls[c].adds = 1
               /\ auth.calls[c].posted = "refused"

C21_Witness ==
    /\ auth.calls[1].listed = "refused"
    /\ auth.calls[1].pc = "returned"
    /\ auth.calls[1].posted = "accepted"
    /\ auth.calls[2].listed = "nodomains"
    /\ auth.calls[2].pc = "threw"
    /\ auth.calls[2].posted = "refused"
    /\ auth.domains = {AuthDomain("d1", "stack")}


\* C22: for the same underlying branches getAllBranches returns the identical
\* normalized list whether the body is a bare array or an object holding the array
\* under branches, items or data, and whether the fields of an item are at its top
\* level or nested under "branch"; every returned element has a string id, and an
\* item that does not normalize to a string id is absent
ArrayShapes == {"array", "branches", "items", "data"}

\* the branch an item describes: the fields at its top level or, when it has none
\* there, those under "branch"
Underlying(c) ==
    IF c.id = Undefined /\ c.name = Undefined THEN c.branch
    ELSE [id |-> c.id, name |-> c.name]

\* the same branch as an item with top-level fields, and as one with nested fields
AtTopLevel(c) == Container(Underlying(c).id, Underlying(c).name, Undefined, Undefined)
UnderBranch(c) == Container(Undefined, Undefined, Underlying(c).id, Underlying(c).name)

HasStringId(c) ==
    /\ Underlying(c).id \notin {Undefined, NotAString}
    /\ Underlying(c).name # NotAString

C22_SameListInEveryShape ==
    LET list == branch.remote.list
        expected == MapSeq(SelectSeq(list, HasStringId), Underlying)
    IN  /\ \A shape \in ArrayShapes :
               /\ getAllBranches([shape |-> shape, list |-> list]) = expected
               /\ getAllBranches([shape |-> shape, list |-> MapSeq(list, AtTopLevel)])
                      = expected
               /\ getAllBranches([shape |-> shape, list |-> MapSeq(list, UnderBranch)])
                      = expected
        /\ \A k \in DOMAIN getAllBranches(branch.remote) :
               getAllBranches(branch.remote)[k].id \notin {Undefined, NotAString}

C22_Witness ==
    /\ branch.remote.shape = "items"
    /\ branch.remote.list = <<Container(Undefined, "main", Undefined, Undefined),
                              Container(Undefined, Undefined, "b4", "main")>>
    /\ getAllBranches(branch.remote) = <<[id |-> "b4", name |-> "main"]>>
    /\ branch.last = [id |-> "b4", name |-> "main"]
    /\ ~branch.changed


\* C23: getBackendAdapter returns an adapter only for backend type "neon" with a
\* backend project id present; for every other backend type, and for "neon" without
\* a backend project id, it throws and returns no adapter. A snapshot step of a
\* checkpoint that got its adapter ran on such a project, and one that failed on
\* the configuration did not
Registered(project) ==
    /\ project.backendType = "neon"
    /\ project.backendProjectId \notin {NoBackendProjectId, ""}

C23_AdapterOnlyForRegisteredBackend ==
    [][/\ IF Registered(cfg)
          THEN getBackendAdapter(cfg) =
                   Adapter("NeonBackendAdapter", cfg.backendProjectId, "none")
          ELSE /\ getBackendAdapter(cfg).adapter = "none"
               /\ getBackendAdapter(cfg).error # "none"
       /\ cfg.backendType # "neon" =>
              getBackendAdapter(cfg).error = "Unsupported backend"
       /\ \A i \in Checkpoints :
              /\ ("createBackendSnapshot" \in ckpt'[i].done \ ckpt[i].done) =>
                     Registered(cfg)
              /\ (ckpt'[i].error = "config" /\ ckpt[i].error # "config") =>
                     ~Registered(cfg)]_vars

C23_Witness ==
    /\ ckpt[1].status = "success"
    /\ ckpt[2].status = "failed"
    /\ ckpt[2].error = "config"
    /\ cfg = BackendColumns("firebase", "fb1")
    /\ getBackendAdapter(cfg) = Adapter("none", NoBackendProjectId, "Unsupported backend")

\* C24: initalizeFirstProjectVersion on a project whose backend type is not "neon",
\* or whose backend project id is missing, fails before any step runs: no step of
\* the run has completed, no version or secrets row of the run is written and the
\* pointer of the project stays null
C24_InitRejectsUnsupportedBackend ==
    [][/\ (init.pc = "start" /\ init'.pc # "start" /\ ~Registered(cfg)) =>
              /\ init'.error = "config"
              /\ UNCHANGED <<storeVars, worldVars>>
       /\ init'.error = "config" =>
              /\ init'.pc = "end"
              /\ init'.status = "failed"
              /\ init'.done = {}
              /\ init'.versionId = NULL
              /\ InitRunId \notin VersionIdsOf(versions')
              /\ SecretsOfVersion(secrets', InitRunId) = {}
              /\ projects'[init.project].currentDevVersionId = NULL]_vars

C24_Witness ==
    /\ cfg = BackendColumns("neon", NoBackendProjectId)
    /\ init.error = "config"
    /\ init.status = "failed"
    /\ versions = {InitialVersionValues(1, "p2", 1, 1),
                   CheckpointVersionValues(2, "p2", 2, 2, NoMessage)}
    /\ del.status = "success"

\* C25: in createManualCheckpoint and deleteProject a configuration error
\* (unsupported backend type or missing backend project id) is raised before any
\* external call has been made and before any local row has been changed
C25_ConfigErrorBeforeAnyEffect ==
    [][/\ \A i \in Checkpoints :
              (ckpt'[i].error = "config" /\ ckpt[i].error # "config") =>
                  ckpt[i].done = {}
       /\ (del'.error = "config" /\ del.error # "config") =>
              /\ del.done = {}
              /\ projects[del.project].exists]_vars


\* C26: copyProjectSecrets(from, to) with no secrets row stored for `from` completes
\* without throwing and writes nothing: `to` has no secrets row afterwards, and the
\* checkpoint run is not failed by the step
CopyStepTaken(i) ==
    /\ "copyProjectSecrets" \notin ckpt[i].done
    /\ "copyProjectSecrets" \in ckpt'[i].done

C26_MissingSourceSkipsCopy ==
    [][\A i \in Checkpoints :
         /\ (CopyStepTaken(i)
               /\ SecretsOfVersion(secrets, ckpt[i].currentDevVersionId) = {}) =>
                /\ UNCHANGED secrets
                /\ ckpt'[i].copied = "skipped"
                /\ ckpt'[i].status = ckpt[i].status
                /\ ckpt'[i].error = ckpt[i].error
         /\ ckpt'[i].copied = "skipped" =>
                SecretsOfVersion(secrets', ckpt'[i].versionId) = {}]_vars

C26_Witness ==
    /\ ckpt[1].copied = "skipped"
    /\ ckpt[1].status = "success"
    /\ ckpt[1].versionId \in VersionIdsOf(versions)
    /\ SecretsOfVersion(secrets, ckpt[1].versionId) = {}
    /\ SecretsOfVersion(secrets, ckpt[1].currentDevVersionId) = {}
    /\ projects["p1"].currentDevVersionId = ckpt[1].versionId


\* C27: along any chain of checkpoints, decrypting the bundle copyProjectSecrets
\* wrote for a version gives the same mapping as decrypting the bundle of its
\* source version, and so the same as the first bundle of the chain, however many
\* times it was decrypted and encrypted again; the copy is the encryption of the
\* re-serialised plaintext under a fresh iv, never the source's ciphertext
MappingIn(row) == MappingOf(JSONParse(decrypt(row.secrets)))

DelLeaves(step) == del.pc = step /\ del'.pc # step

C28_ZeroVersionsRemovesProject ==
    [][del.versionIds = {} =>
         /\ DelLeaves("clearCurrentDevVersion") => del'.pc = "deleteProjectVersions"
         /\ del'.pc # "deleteProjectSecrets"
         /\ DelLeaves("deleteProjectVersions") => del'.pc = "deleteProjectRecord"
         /\ DelLeaves("deleteProjectRecord") =>
                /\ del'.pc = "teardown"
                /\ ~projects'[del.project].exists]_vars

\* what does hold of a run whose getProjectVersionIds found no version:
\* deleteProjectSecrets is not run and deleteProjectVersions is; while no version
\* of the project has been inserted since, deleteProjectVersions and
\* deleteProjectRecord complete and the project row is removed
NoVersionInserted == VersionsOfProject(versions, del.project) = {}

ZeroVersionsSkipsSecrets ==
    [][del.versionIds = {} =>
         /\ DelLeaves("clearCurrentDevVersion") => del'.pc = "deleteProjectVersions"
         /\ del'.pc # "deleteProjectSecrets"
         /\ (DelLeaves("deleteProjectVersions") /\ NoVersionInserted) =>
                del'.pc = "deleteProjectRecord"
         /\ (DelLeaves("deleteProjectRecord") /\ NoVersionInserted) =>
                /\ del'.pc = "teardown"
                /\ ~projects'[del.project].exists]_vars

ZeroVersionsRunRemovedProject ==
    /\ del.pc = "teardown"
    /\ del.versionIds = {}
    /\ del.status = "running"
    /\ ~projects[del.project].exists
    /\ init.pc = "start"
    /\ VersionsOfProject(versions, del.project) = {}


\* C29: in every reachable state where a project's row has been deleted, no version
\* row has its projectId and no secrets row belongs to a version of it (every
\* secrets row belongs to a version row of a project that exists), also while a
\* checkpoint workflow or the agent's commit-and-push runs next to deleteProject
SecretsOfProject(p) ==
    {s \in secrets : \A v \in versions : v.id = s.projectVersionId => v.projectId = p}

C29_DeletedProjectLeavesNoRows ==
    \A p \in ProjectIds :
        ~projects[p].exists =>
            /\ VersionsOfProject(versions, p) = {}
            /\ SecretsOfProject(p) = {}

C29_Witness ==
    /\ ~projects["p1"].exists
    /\ init.status = "success"
    /\ \E i \in Checkpoints : ckpt[i].status = "failed" /\ ckpt[i].error = "constraint"


\* C30: when one of the three external teardown steps of deleteProject fails, the
\* run is reported failed and the local deletion stays: the step changes no row,
\* the project, its versions and its secrets are absent, and the project row does
\* not come back afterwards
TeardownFails == del.pc = "teardown" /\ del'.status = "failed"

C30_TeardownFailureKeepsDeletion ==
    [][/\ TeardownFails =>
            /\ <<projects, versions, secrets>>' = <<projects, versions, secrets>>
            /\ ~projects'[del.project].exists
            /\ VersionsOfProject(versions', del.project) = {}
            /\ \A s \in secrets' : \E v \in versions' : v.id = s.projectVersionId
       /\ ~projects[del.project].exists => ~projects'[del.project].exists]_vars

C30_Witness ==
    /\ del.status = "failed"
    /\ del.pc = "end"
    /\ init.status = "success"
    /\ ~projects[del.project].exists
    /\ VersionsOfProject(versions, del.project) = {}


\* C31: warmUpDevServer completes with the dev-server request still in flight; the
\* request settling or failing, at any time, changes neither the run nor a stored
\* row; and once the three steps of the last Promise.all have returned the workflow
\* returns success with the version it created, whatever became of the request
WarmUpStepReturns ==
    /\ "warmUpDevServer" \notin init.done
    /\ "warmUpDevServer" \in init'.done

C31_WarmUpDoesNotGate ==
    [][/\ WarmUpStepReturns => warm'.pc = "requested"
       /\ warm' # warm /\ warm.pc # "none" =>
              <<init, projects, versions, secrets>>' = <<init, projects, versions, secrets>>
       /\ (init.pc = "fan2" /\ init.done = InitFanOut2 /\ init' # init) =>
              /\ init'.status = "success"
              /\ init'.versionId = init.versionId
              /\ <<projects, versions, secrets>>' = <<projects, versions, secrets>>]_vars

C31_Witness ==
    /\ init.status = "success"
    /\ warm.pc = "failed"
    /\ projects[init.project].currentDevVersionId = init.versionId
    /\ SecretsOfVersion(secrets, init.versionId) # {}


\* C32: in the initialisation the version row is inserted only when initNeonAuth,
\* getDatabaseConnectionUri, getLatestCommitHash and createBackendSnapshot have all
\* returned (with the commit hash and the snapshot id the row stores); none of
\* saveProjectSecrets, setCurrentDevVersion, warmUpDevServer returns or writes
\* before createInitialVersion returned the version; and a run that fails in the
\* first Promise.all has no version row
InitialVersionInserted ==
    /\ InitRunId \notin VersionIdsOf(versions)
    /\ InitRunId \in VersionIdsOf(versions')

FanOut2StepActs ==
    \/ init'.done \cap InitFanOut2 # init.done \cap InitFanOut2
    \/ SecretsOfVersion(secrets', InitRunId) # SecretsOfVersion(secrets, InitRunId)
    \/ Pointer(init.project)' = InitRunId /\ Pointer(init.project) # InitRunId
    \/ warm' # warm /\ warm.pc = "none"

C32_VersionAfterFanOut1BeforeFanOut2 ==
    [][/\ InitialVersionInserted =>
              /\ init.done = InitFanOut1
              /\ init.commitHash # NULL /\ init.snapshotId # NULL
              /\ VersionById(versions', InitRunId).gitCommitHash = init.commitHash
              /\ VersionById(versions', InitRunId).neonSnapshotId = init.snapshotId
       /\ FanOut2StepActs =>
              /\ init.versionId = InitRunId
              /\ InitRunId \in VersionIdsOf(versions)
       /\ (init.pc = "fan1" /\ init'.status = "failed") =>
              InitRunId \notin VersionIdsOf(versions')
       /\ (init.status = "failed" /\ init.versionId = NULL) =>
              InitRunId \notin VersionIdsOf(versions')]_vars

C32_Witness ==
    /\ init.pc = "fan2"
    /\ init.done = InitFanOut2
    /\ InitRunId \in VersionIdsOf(versions)
    /\ VersionById(versions, InitRunId).gitCommitHash = gitHead[init.project]
    /\ SecretsOfVersion(secrets, InitRunId) # {}
    /\ Pointer(init.project) = InitRunId


\* C33: the steps of deleteProject take effect in order: the pointer is cleared by
\* the step before any delete; secrets rows are deleted by the step before the one
\* deleting version rows, which finds no secrets row of a victim; version rows are
\* deleted before the project row, which is deleted only when no version row of
\* the project is left; and no teardown step acts while the project row exists
DelOrder ==
    {<<"getProjectVersionIds", "clearCurrentDevVersion">>,
     <<"clearCurrentDevVersion",
       IF del.versionIds = {} THEN "deleteProjectVersions" ELSE "deleteProjectSecrets">>,
     <<"deleteProjectSecrets", "deleteProjectVersions">>,
     <<"deleteProjectVersions", "deleteProjectRecord">>,
     <<"deleteProjectRecord", "teardown">>,
     <<"teardown", "end">>}

VersionsRemoved == VersionsOfProject(versions, del.project) \ versions'

C33_DeleteOrder ==
    [][/\ (del.status = "running" /\ del'.status # "failed" /\ del'.pc # del.pc) =>
              <<del.pc, del'.pc>> \in DelOrder
       /\ DelLeaves("clearCurrentDevVersion") =>
              /\ Pointer(del.project)' = NULL
              /\ <<versions, secrets>>' = <<versions, secrets>>
       /\ secrets \ secrets' # {} =>
              /\ del.pc = "deleteProjectSecrets"
              /\ versions' = versions
       /\ VersionsRemoved # {} =>
              /\ del.pc = "deleteProjectVersions"
              /\ \A v \in VersionsRemoved : SecretsOfVersion(secrets, v.id) = {}
              /\ projects[del.project].exists
       /\ (projects[del.project].exists /\ ~projects'[del.project].exists) =>
              /\ del.pc = "deleteProjectRecord"
              /\ VersionsOfProject(versions, del.project) = {}
       /\ (del.pc = "teardown" /\ del' # del) =>
              ~projects[del.project].exists]_vars

C33_Witness ==
    /\ del.pc = "teardown"
    /\ del.versionIds # {}
    /\ del.done # {}
    /\ init.status = "success"
    /\ ~projects[del.project].exists


\* C34 as stated: the secrets of the version a checkpoint created, decrypted, equal
\* those of the version id it was given, whatever the pointer has become
Mappings(ss, versionId) == {MappingIn(row) : row \in SecretsOfVersion(ss, versionId)}

BranchIdsListed == {CurrentBranches[i].id : i \in 1..Len(CurrentBranches)}

C35_RestoreTargetsProductionBranch ==
    \A parentIds \in [BranchIdsListed -> {Undefined, "b0"}] :
        RestoreMainBranchOf(CurrentBranches, parentIds) =
            ProductionBranchOf(CurrentBranches)


\* C36: a persistence step invoked again with the same arguments leaves the store
\* as a single invocation does, for saveProjectSecrets, copyProjectSecrets,
\* setCurrentDevVersion, clearCurrentDevVersion, deleteProjectSecrets,
\* deleteProjectVersions and deleteProjectRecord; a version a run saved or copied
\* secrets for never has two secrets rows
InitStepTaken(step) == step \notin init.done /\ step \in init'.done

UpdatesAndDeletesAsSingleInvocation ==
       /\ (InitStepTaken("setCurrentDevVersion") /\ init.pc = "fan2") =>
              projects' = UpdatePointer(projects, init.project, init.versionId)
       /\ DelLeaves("clearCurrentDevVersion") =>
              projects' = UpdatePointer(projects, del.project, NULL)
       /\ (DelLeaves("deleteProjectSecrets") /\ del'.status # "failed") =>
              secrets' = DeleteSecretsIn(secrets, del.versionIds)
       /\ (DelLeaves("deleteProjectVersions") /\ del'.status # "failed") =>
              versions' = DeleteVersions(versions, del.project)
       /\ (DelLeaves("deleteProjectRecord") /\ del'.status # "failed") =>
              projects' = DeleteProject(projects, del.project)

InsertsAsSingleInvocation ==
       /\ (InitStepTaken("saveProjectSecrets") /\ init'.status # "failed") =>
              secrets' = InsertSecret(secrets, init.versionId, InitialEnv)
       /\ \A i \in Checkpoints :
              (CopyStepTaken(i) /\ ckpt'[i].status # "failed") =>
                  secrets' = CopySecrets(secrets, ckpt[i].currentDevVersionId,
                                         ckpt[i].versionId)
       /\ \A v \in VersionIdsOf(versions') :
              Cardinality(SecretsOfVersion(secrets', v)) <= 1

C36_StepInvokedAgainAsSingleInvocation ==
    [][UpdatesAndDeletesAsSingleInvocation /\ InsertsAsSingleInvocation]_vars

\* what does hold: the two updates and the three deletes, invoked again, leave the
\* store as a single invocation does
IdempotentStepsInvokedAgain == [][UpdatesAndDeletesAsSingleInvocation]_vars


\* C37: in every reachable state a project has at most one version whose summary
\* is "Initial project setup", also when a step of the initialisation is invoked
\* again by the host
InitialVersionsOf(p) ==
    {v \in VersionsOfProject(versions, p) : v.summary = InitialSummary}

C37_AtMostOneInitialVersion ==
    \A p \in ProjectIds : Cardinality(InitialVersionsOf(p)) <= 1


\* C38: in every reachable state, a project whose currentDevVersionId is not null
\* has a secrets row stored for the version it points to
C38_PointedVersionHasSecrets ==
    \A p \in ProjectIds :
        (projects[p].exists /\ Pointer(p) # NULL) =>
            SecretsOfVersion(secrets, Pointer(p)) # {}


\* C39: the agent's commit-and-push writes the pointer only in its last statement,
\* when the version row and the secrets row it inserted are stored, and then
\* returns success; no other statement of it touches a project row, and when a
\* statement before fails it returns success: false and the pointer has not been
\* set to its version
AgentActs == agent' # agent /\ agent.status = "running"

C39_AgentPointerAfterVersionAndSecrets ==
    [][/\ (AgentActs /\ Pointer(agent.project)' # Pointer(agent.project)) =>
              /\ agent.pc = "updateProject"
              /\ agent.versionId \in VersionIdsOf(versions)
              /\ VersionById(versions, agent.versionId).projectId = agent.project
              /\ SecretsOfVersion(secrets, agent.versionId) # {}
              /\ Pointer(agent.project)' = agent.versionId
              /\ agent'.status = "success"
       /\ (AgentActs /\ agent.pc # "updateProject") => projects' = projects
       /\ (AgentActs /\ agent'.status = "failure") =>
              /\ agent.pc \in {"commitAndPush", "getLatestCommit", "snapshot",
                               "insertVersion", "insertSecrets"}
              /\ projects' = projects
       /\ agent'.status = "failure" => Pointer(agent.project)' # AgentRunId]_vars

C39_Witness ==
    /\ agent.status = "success"
    /\ Pointer(agent.project) = AgentRunId
    /\ AgentRunId \in VersionIdsOf(versions)
    /\ \E row \in SecretsOfVersion(secrets, AgentRunId) : decrypt(row.secrets) = AgentEnv


\* C40: a restore of a version that does not exist, belongs to another project or
\* has no secrets row answers not found; it does so before the dev server is
\* requested and before any later statement, and the repository's head, the
\* backend branch and the project's pointer are as they were
ExternalSteps ==
    {"requestDevServer", "setMainBranchToCommit", "getAllBranches", "applySnapshot",
     "updateProject"}

RestoreActs == restore.status = "running" /\ restore' # restore

InvalidRestoreRequest ==
    \/ /\ RestoreAt("selectVersion")
       /\ SelectVersion(versions, restore.versionId, restore.projectId) = {}
    \/ /\ RestoreAt("selectSecrets")
       /\ SecretsOfVersion(secrets, restore.versionId) = {}

C40_InvalidRestoreHasNoEffect ==
    [][/\ (RestoreActs /\ InvalidRestoreRequest) =>
              restore'.status \in {"notfound", "error"}
       /\ (RestoreActs /\ restore'.status = "notfound") =>
              /\ \A j \in 1..restore.pc : RestoreSteps[j] \notin ExternalSteps
              /\ ~restore.reset /\ restore.applied = "no" /\ ~restore.wrote
              /\ <<gitHead, appliedSnapshot, projects>>' =
                     <<gitHead, appliedSnapshot, projects>>
       /\ (RestoreActs /\ restore'.status = "running") => restore'.pc = restore.pc + 1
       /\ (RestoreActs /\ RestoreSteps[restore.pc] \notin ExternalSteps) =>
              <<gitHead, appliedSnapshot, projects>>' =
                  <<gitHead, appliedSnapshot, projects>>]_vars

C40_Witness ==
    /\ restore.status = "notfound"
    /\ restore.projectId = "p1"
    /\ InitRunId \in VersionIdsOf(versions)
    /\ SecretsOfVersion(secrets, InitRunId) = {}
    /\ ~restore.reset /\ restore.applied = "no" /\ ~restore.wrote
    /\ appliedSnapshot["p1"] = NULL

====
